---- MODULE Spec2Model ----
(***************************************************************************)
(* Model of the tariff audit engine of utility-billing-ai:                 *)
(*   src/src/agents/audit_calculation_agent/calc_engine_updated.py         *)
(*                                                                         *)
(* Numbers are fixed-point with three decimals (1000 = 1.000): money in    *)
(* mills, energy in thousandths of a kWh, voltage in thousandths of a kV.  *)
(* round(x, 2) and the ":.2f" format round to a multiple of 10.            *)
(* Strings that the code transforms (service-class codes, conditions,      *)
(* quantity expressions, charge types) are sequences of tokens, so that    *)
(* upper(), replace() and strip() act on them; labels the code only copies *)
(* (step names, notes) are plain strings.                                  *)
(* JSON / pandas values are tagged records [t, n, s]:                      *)
(*   t = "absent" (key missing), "none" (None / null), "num" (number n),   *)
(*       "nan" (float NaN), "bad" (a non-numeric, non-empty string),       *)
(*       "str" (string / token sequence s), "tiers" (a voltage mapping).   *)
(***************************************************************************)
EXTENDS Integers, Sequences, FiniteSets, TLC

\* ---------------------------------------------------------------- bounds
\* Largest billed_kwh (whole kWh) of the enumerated usage records.
MaxKwh == 2
\* Largest billed_demand / billed_rkva (whole kW / rkVA) of the records.
MaxDemand == 1

\* ------------------------------------------------------- tagged values
Absent == [t |-> "absent", n |-> 0, s |-> <<>>]
None == [t |-> "none", n |-> 0, s |-> <<>>]
NaN == [t |-> "nan", n |-> 0, s |-> <<>>]
Bad == [t |-> "bad", n |-> 0, s |-> <<>>]
Num(x) == [t |-> "num", n |-> x, s |-> <<>>]
Str(x) == [t |-> "str", n |-> 0, s |-> x]
Bool(b) == [t |-> "bool", n |-> IF b THEN 1 ELSE 0, s |-> <<>>]
\* A pandas Timestamp, of which the model keeps the month.
Ts(month) == [t |-> "ts", n |-> month, s |-> <<>>]
\* An object that is neither a number nor a string (the pandas module).
Obj == [t |-> "obj", n |-> 0, s |-> <<>>]

\* Python truthiness of a value that is present.
Truthy(v) ==
    CASE v.t = "none" -> FALSE
      [] v.t = "absent" -> FALSE
      [] v.t = "num" -> v.n # 0
      [] v.t = "bool" -> v.n # 0
      [] v.t = "str" -> v.s # <<>>
      [] OTHER -> TRUE

\* row.get(key, default) / dict.get(key, default): the default replaces a
\* missing key only, a stored None is returned as it is.
Get(v, default) == IF v.t = "absent" THEN default ELSE v

\* Python's `a or b`.
Or(a, b) == IF Truthy(a) THEN a ELSE b

\* ------------------------------------------------------- fixed point
FMul(a, b) == (a * b) \div 1000

\* round(x, 2) on a value in mills: nearest cent, ties to the even cent.
\* (A float that prints as a decimal tie, such as 0.015, lies slightly off
\* the tie and Python rounds it to the nearer cent; the properties below
\* do not depend on the direction in which a tie goes.)
Round2(x) ==
    LET q == x \div 10
        r == x % 10
    IN  IF r < 5 THEN 10 * q
        ELSE IF r > 5 THEN 10 * (q + 1)
        ELSE IF q % 2 = 0 THEN 10 * q ELSE 10 * (q + 1)

\* The ":.2f" format of an amount: the text shows the amount to the cent.
Fmt2(x) == Round2(x)

\* float(v): [ok, n]; ok is FALSE where Python raises ValueError / TypeError.
\* NaN is not among the values the model feeds to float().
FloatOf(v) ==
    CASE v.t = "num" -> [ok |-> TRUE, n |-> v.n]
      [] v.t = "bool" -> [ok |-> TRUE, n |-> 1000 * v.n]
      [] OTHER -> [ok |-> FALSE, n |-> 0]

\* ------------------------------------------- service-class normalization
Upper(c) ==
    CASE c = "s" -> "S"
      [] c = "c" -> "C"
      [] c = "n" -> "N"
      [] c = "a" -> "A"
      [] OTHER -> c

\* str(x) of a service-class value, as a sequence of characters.
StrOf(v) ==
    CASE v.t = "str" -> v.s
      [] v.t = "nan" -> <<"n", "a", "n">>
      [] v.t = "none" -> <<"N", "o", "n", "e">>
      [] OTHER -> v.s

UpperSeq(s) == [i \in 1..Len(s) |-> Upper(s[i])]

NotSpace(c) == c # " "

NotHyphen(c) == c # "-"

\* str.replace(" ", "").replace("-", "")
StripSpacesHyphens(s) == SelectSeq(SelectSeq(s, NotSpace), NotHyphen)

\* A normalization that forgets the hyphens.
NormalizeKeepHyphens(sc) ==
    IF sc.t = "none" THEN <<>> ELSE SelectSeq(UpperSeq(StrOf(sc)), NotSpace)

_normalize_sc_code(sc) ==
    IF sc.t = "none" THEN <<>> ELSE StripSpacesHyphens(UpperSeq(StrOf(sc)))

\* --------------------------------------------------------- tier resolver
\* A tier key is kept as what _parse_voltage_tier_key reads from it: whether
\* the text (after removing "kV" and stripping) starts with "over", and the
\* numbers the regular expression finds in it, in order.
TierKey(over, nums) == [over |-> over, nums |-> nums]

Tier(key, rate) == [key |-> key, rate |-> rate]

Tiers(seq) == [t |-> "tiers", n |-> 0, s |-> seq]

\* (low, high); inf = TRUE stands for high = float("inf").
_parse_voltage_tier_key(key) ==
    IF key.over
    THEN [low |-> IF Len(key.nums) > 0 THEN key.nums[1] ELSE 0, high |-> 0, inf |-> TRUE]
    ELSE IF Len(key.nums) >= 2
    THEN [low |-> key.nums[1], high |-> key.nums[2], inf |-> FALSE]
    ELSE IF Len(key.nums) > 0
    THEN [low |-> key.nums[1], high |-> key.nums[1], inf |-> FALSE]
    ELSE [low |-> 0, high |-> 0, inf |-> TRUE]

\* A band test that excludes the upper end.
InBandHalfOpen(band, v) == band.low <= v /\ (band.inf \/ v < band.high)

\* low <= delivery_voltage <= high
InBand(band, v) == band.low <= v /\ (band.inf \/ v <= band.high)

\* float(x or 0.0) guarded by try/except: 0.0 when it cannot be parsed.
RateOrZero(v) ==
    LET x == Or(v, Num(0))
    IN  IF FloatOf(x).ok THEN FloatOf(x).n ELSE 0

\* Indices of the tiers whose band contains v.
MatchingTiers(tiers, v) ==
    {i \in 1..Len(tiers) : InBand(_parse_voltage_tier_key(tiers[i].key), v)}

MinOf(S) == CHOOSE x \in S : \A y \in S : x <= y

MaxOf(S) == CHOOSE x \in S : \A y \in S : x >= y

\* A resolver that takes the last matching tier instead of the first.
SelectLastMatch(value_obj, delivery_voltage) ==
    IF value_obj.t # "tiers" THEN RateOrZero(value_obj)
    ELSE IF delivery_voltage.t = "none" THEN 0
    ELSE LET m == MatchingTiers(value_obj.s, delivery_voltage.n)
         IN  IF m = {} THEN 0 ELSE RateOrZero(value_obj.s[MaxOf(m)].rate)

\* A resolver that falls back to the first tier when the voltage is unknown
\* or no tier contains it.
SelectFirstTierAsDefault(value_obj, delivery_voltage) ==
    IF value_obj.t # "tiers" THEN RateOrZero(value_obj)
    ELSE IF delivery_voltage.t = "none" THEN RateOrZero(value_obj.s[1].rate)
    ELSE LET m == MatchingTiers(value_obj.s, delivery_voltage.n)
         IN  IF m = {} THEN RateOrZero(value_obj.s[1].rate)
             ELSE RateOrZero(value_obj.s[MinOf(m)].rate)

\* delivery_voltage is None or Num(v).
_select_rate_by_voltage(value_obj, delivery_voltage) ==
    IF value_obj.t # "tiers" THEN RateOrZero(value_obj)
    ELSE IF delivery_voltage.t = "none" THEN 0
    ELSE LET m == MatchingTiers(value_obj.s, delivery_voltage.n)
         IN  IF m = {} THEN 0 ELSE RateOrZero(value_obj.s[MinOf(m)].rate)

\* --------------------------------------------------- expression evaluator
\* An expression is a sequence of tokens.  eval() is modelled for the shapes
\*   atom | atom op atom | min ( atom , atom ) | max ( atom , atom )
\*   | abs ( atom ) | round ( atom )
\* and fails (SyntaxError) on any other shape.
NumLit(tok) ==
    CASE tok = "0" -> 0
      [] tok = "1" -> 1000
      [] tok = "6" -> 6000
      [] tok = "15" -> 15000
      [] OTHER -> -1

\* Tokens that contain the text "user.".
UserTokens ==
    {"user.billed_kwh", "user.billed_demand", "user.billed_rkva", "user.days_used",
     "user.bill_date", "user.bill_date.month", "user.account_id"}

\* "user." in str(expr)
ContainsUser(e) == \E i \in 1..Len(e) : e[i] \in UserTokens

Fail == [ok |-> FALSE, v |-> None]

Ok(v) == [ok |-> TRUE, v |-> v]

\* Name lookup: the locals are the evaluation context, the globals are
\* SAFE_GLOBALS (whose functions are handled by EvalCall).
EvalAtom(tok, ctx) ==
    CASE NumLit(tok) >= 0 -> Ok(Num(NumLit(tok)))
      [] tok = "'On Peak'" -> Ok(Str(<<"On Peak">>))
      [] tok = "user.billed_kwh" -> Ok(Num(ctx.user.billed_kwh))
      [] tok = "user.billed_demand" -> Ok(Num(ctx.user.billed_demand))
      [] tok = "user.billed_rkva" -> Ok(Num(ctx.user.billed_rkva))
      [] tok = "user.days_used" -> Ok(Num(ctx.user.days_used))
      [] tok = "user.bill_date" -> Ok(ctx.user.bill_date)
      [] tok = "user.bill_date.month" ->
            IF ctx.user.bill_date.t = "ts" THEN Ok(Num(1000 * ctx.user.bill_date.n)) ELSE Fail
      [] tok = "time_of_use" -> Ok(ctx.time_of_use)
      [] tok = "delivery_voltage" -> Ok(ctx.delivery_voltage)
      [] tok = "pd" -> Ok(ctx.pd)
      [] OTHER -> Fail

EvalBinary(a, op, b) ==
    IF ~a.ok \/ ~b.ok THEN Fail
    ELSE IF op = "=="
    THEN Ok(Bool(a.v.t = b.v.t /\ a.v.n = b.v.n /\ (a.v.t = "str" => a.v.s = b.v.s)))
    ELSE IF a.v.t # "num" \/ b.v.t # "num" THEN Fail
    ELSE CASE op = "<=" -> Ok(Bool(a.v.n <= b.v.n))
           [] op = ">" -> Ok(Bool(a.v.n > b.v.n))
           [] op = ">=" -> Ok(Bool(a.v.n >= b.v.n))
           [] op = "*" -> Ok(Num(FMul(a.v.n, b.v.n)))
           [] op = "/" -> IF b.v.n = 0 THEN Fail ELSE Ok(Num((a.v.n * 1000) \div b.v.n))
           [] OTHER -> Fail

EvalCall(f, a, b) ==
    IF ~a.ok \/ ~b.ok \/ a.v.t # "num" \/ b.v.t # "num" THEN Fail
    ELSE CASE f = "min" -> Ok(Num(IF a.v.n <= b.v.n THEN a.v.n ELSE b.v.n))
           [] f = "max" -> Ok(Num(IF a.v.n >= b.v.n THEN a.v.n ELSE b.v.n))
           [] OTHER -> Fail

\* round(x): the nearest whole number, ties to the even one.
RoundInt(x) ==
    LET q == x \div 1000
        r == x % 1000
    IN  IF r < 500 THEN 1000 * q
        ELSE IF r > 500 THEN 1000 * (q + 1)
        ELSE IF q % 2 = 0 THEN 1000 * q ELSE 1000 * (q + 1)

\* abs and round of SAFE_GLOBALS, with one argument.
EvalCall1(f, a) ==
    IF ~a.ok \/ a.v.t # "num" THEN Fail
    ELSE CASE f = "abs" -> Ok(Num(IF a.v.n < 0 THEN -a.v.n ELSE a.v.n))
           [] f = "round" -> Ok(Num(RoundInt(a.v.n)))
           [] OTHER -> Fail

Eval(e, ctx) ==
    CASE Len(e) = 1 -> EvalAtom(e[1], ctx)
      [] Len(e) = 4 /\ e[2] = "(" /\ e[4] = ")" -> EvalCall1(e[1], EvalAtom(e[3], ctx))
      [] Len(e) = 3 -> EvalBinary(EvalAtom(e[1], ctx), e[2], EvalAtom(e[3], ctx))
      [] Len(e) = 6 /\ e[2] = "(" /\ e[4] = "," /\ e[6] = ")" ->
            EvalCall(e[1], EvalAtom(e[3], ctx), EvalAtom(e[5], ctx))
      [] OTHER -> Fail

\* An evaluator that lets the exception escape: the failure is reported
\* to the caller instead of being turned into None.
SafeEvalRaising(expr, context) ==
    IF expr = <<>> THEN [ok |-> TRUE, v |-> None] ELSE Eval(expr, context)

\* _safe_eval: None for an empty expression and for any exception.
\* The result is [ok, v]; ok is always TRUE (nothing escapes).
_safe_eval(expr, context) ==
    IF expr = <<>> THEN Ok(None)
    ELSE IF Eval(expr, context).ok THEN Ok(Eval(expr, context).v) ELSE Ok(None)

\* ------------------------------------------------------------ logic steps
\* A logic step is a JSON object; every key the engine reads is a field,
\* Absent when the object does not have the key.
Step(name, ct, value, cond) ==
    [step_name |-> Str(<<name>>), charge_type |-> ct, value |-> value, condition |-> cond,
     note |-> Absent, reference |-> Absent, unit |-> Absent, applies_to |-> Absent,
     formula |-> Absent, demand_kw |-> Absent, demand_rkva |-> Absent]

\* step.get("step_name", "Unknown")
StepName(step) == Get(step.step_name, Str(<<"Unknown">>)).s[1]

\* str.strip() on a token sequence whose blanks are " " tokens; the text that
\* is left is a single token, or "" when nothing is left.
StripTokens(s) ==
    LET keep == {i \in 1..Len(s) : s[i] # " "}
    IN  IF keep = {} THEN "" ELSE s[MinOf(keep)]

\* (step.get("charge_type") or "").strip(): ok is FALSE when the value is a
\* truthy non-string, which has no strip() (AttributeError).
ChargeType(step) ==
    LET x == Or(Get(step.charge_type, None), Str(<<>>))
    IN  IF x.t = "str" THEN [ok |-> TRUE, s |-> StripTokens(x.s)]
        ELSE [ok |-> FALSE, s |-> ""]

NotKv(tok) == tok # " kV"

\* _normalize_condition(step.get("condition", "Always"))
_normalize_condition(step) ==
    LET cond == Get(step.condition, Str(<<"Always">>))
    IN  IF cond.t # "str" THEN <<"Always">> ELSE SelectSeq(cond.s, NotKv)

\* A reference set without "energy_rate".
ReferenceTypesShort ==
    {"reference", "demand_rate", "energy_rate_minimum", "demand_determination"}

ReferenceTypes ==
    {"reference", "energy_rate", "demand_rate", "energy_rate_minimum", "demand_determination"}

MinimumTypes == {"minimum_charge", "minimum_bill"}

\* A quantity that is always the default of the charge type.
QuantityExprAlwaysDefault(v, default) == default

\* The quantity expression: the candidate when it is a string that contains
\* "user.", the default otherwise.
QuantityExpr(v, default) ==
    IF v.t = "str" /\ ContainsUser(v.s) THEN v.s ELSE default

\* dict.get(key): None for a missing key.
GetNone(v) == Get(v, None)

KwhTypes == {"per_kwh", "energy_charge"}

KwTypes == {"per_kw", "demand_charge", "demand_fee"}

RkvaTypes == {"per_rkva", "reactive_demand_fee"}

\* A choice that moves on to the next field whenever a field is no user.*
\* expression.
QuantityExprNextUsable(step, ct) ==
    LET Usable(v) == v.t = "str" /\ ContainsUser(v.s)
        First(fields, default) ==
            LET ok == {i \in 1..Len(fields) : Usable(fields[i])}
            IN  IF ok = {} THEN default ELSE fields[MinOf(ok)].s
    IN  CASE ct \in KwhTypes ->
                First(<<step.unit, step.applies_to>>, <<"user.billed_kwh">>)
          [] ct \in KwTypes ->
                First(<<step.demand_kw, step.formula, step.unit>>, <<"user.billed_demand">>)
          [] OTHER ->
                First(<<step.demand_rkva, step.formula, step.unit>>, <<"user.billed_rkva">>)

\* The expression a per-unit step multiplies its rate with (lines 318-323,
\* 341-350 and 368-375): the first usable field in the order of the charge
\* type, replaced by the default when it does not contain "user.".
QuantityExprOf(step, ct) ==
    CASE ct \in KwhTypes ->
            QuantityExpr(Or(Or(GetNone(step.unit), GetNone(step.applies_to)),
                            Str(<<"user.billed_kwh">>)),
                         <<"user.billed_kwh">>)
      [] ct \in KwTypes ->
            QuantityExpr(IF step.demand_kw.t # "absent" THEN step.demand_kw
                         ELSE Or(Or(GetNone(step.formula), GetNone(step.unit)),
                                 Str(<<"user.billed_demand">>)),
                         <<"user.billed_demand">>)
      [] OTHER ->
            QuantityExpr(Or(Or(Or(GetNone(step.demand_rkva), GetNone(step.formula)),
                               GetNone(step.unit)),
                            Str(<<"user.billed_rkva">>)),
                         <<"user.billed_rkva">>)

\* A failed quantity that reaches the total as one unit.
QuantityOfOne(expr, ctx) ==
    IF Eval(expr, ctx).ok THEN FloatOf(Or(Eval(expr, ctx).v, Num(0)))
    ELSE [ok |-> TRUE, n |-> 1000]

\* float(_safe_eval(expr) or 0.0): ok is FALSE when an exception is raised.
QuantityOf(expr, ctx) ==
    IF _safe_eval(expr, ctx).ok THEN FloatOf(Or(_safe_eval(expr, ctx).v, Num(0)))
    ELSE [ok |-> FALSE, n |-> 0]

\* The try block of one monetary step: kind "cost" with the amount,
\* "unsupported", or "error" when an exception reaches the except clause.
MonetaryStep(step, ct, ctx) ==
    LET rate == _select_rate_by_voltage(Get(step.value, Num(0)), ctx.delivery_voltage)
        q == QuantityOf(QuantityExprOf(step, ct), ctx)
    IN  CASE ct = "fixed_fee" -> [kind |-> "cost", cost |-> rate]
          [] ct \in KwhTypes \cup KwTypes \cup RkvaTypes ->
                IF q.ok THEN [kind |-> "cost", cost |-> FMul(rate, q.n)]
                ELSE [kind |-> "error", cost |-> 0]
          [] OTHER -> [kind |-> "unsupported", cost |-> 0]

\* ------------------------------------------------------------ trace lines
\* A trace line is the text of its f-string: the kind names the template,
\* the other fields are the values formatted into it.
Line(kind, name, text, expr, amt, adj) ==
    [kind |-> kind, name |-> name, text |-> text, expr |-> expr, amt |-> amt, adj |-> adj,
     raw |-> None, norm |-> <<>>]

\* ------------------------------------------------- one iteration of the loop
\* The strictest minimum: max(min_candidates).
MinRequiredFirst(min_candidates) == min_candidates[1]

MinRequired(min_candidates) ==
    MaxOf({min_candidates[i] : i \in 1..Len(min_candidates)})

\* The accumulator of one audit: the locals the loop updates.
Acc(total, trace, mins, raised) ==
    [total_expected |-> total, trace_log |-> trace, min_candidates |-> mins, raised |-> raised]

\* A minimum that is applied to the running total where the step stands.
MinimumInPlace(acc, name, min_val) ==
    Acc(IF acc.total_expected < min_val THEN min_val ELSE acc.total_expected,
        Append(acc.trace_log, Line("minimum_candidate", name, "", <<>>, Fmt2(min_val), 0)),
        Append(acc.min_candidates, min_val), FALSE)

\* Lines 291-293: the minimum is appended to min_candidates and to the
\* trace; the total is left as it is.
RecordMinimum(acc, name, min_val) ==
    Acc(acc.total_expected,
        Append(acc.trace_log, Line("minimum_candidate", name, "", <<>>, Fmt2(min_val), 0)),
        Append(acc.min_candidates, min_val), FALSE)

\* A gate that lets every step through.
ConditionIgnored(condition, v) == TRUE

\* Lines 282-286: the step goes on when its condition is "Always" or the
\* value v of the condition is truthy.
ConditionPasses(condition, v) == condition = <<"Always">> \/ Truthy(v)

\* A loop body that records a minimum before it looks at the condition.
StepBodyMinimumFirst(step, ctx, acc) ==
    LET name == StepName(step)
        ct == ChargeType(step)
        condition == _normalize_condition(step)
        Trace(line) == Acc(acc.total_expected, Append(acc.trace_log, line),
                           acc.min_candidates, FALSE)
        cond == _safe_eval(condition, ctx)
        minv == FloatOf(Or(Get(step.value, Num(0)), Num(0)))
        m == MonetaryStep(step, ct.s, ctx)
    IN  IF ~ct.ok THEN Acc(acc.total_expected, acc.trace_log, acc.min_candidates, TRUE)
        ELSE IF ct.s = "" /\ step.note.t # "absent"
        THEN Trace(Line("informational", name, "", <<>>, 0, 0))
        ELSE IF ct.s \in ReferenceTypes
        THEN Trace(Line("reference", name,
                        Or(Or(GetNone(step.reference), GetNone(step.note)),
                           Str(<<"Reference-only step.">>)).s[1], <<>>, 0, 0))
        ELSE IF ct.s \in MinimumTypes
        THEN IF minv.ok
             THEN RecordMinimum(acc, name, minv.n)
             ELSE acc
        ELSE IF condition # <<"Always">> /\ ~cond.ok
        THEN Acc(acc.total_expected, acc.trace_log, acc.min_candidates, TRUE)
        ELSE IF ~ConditionPasses(condition, cond.v)
        THEN Trace(Line("condition_false", name, "", condition, 0, 0))
        ELSE CASE m.kind = "cost" ->
                    Acc(acc.total_expected + m.cost,
                        Append(acc.trace_log, Line("amount", name, "", <<>>, Fmt2(m.cost), 0)),
                        acc.min_candidates, FALSE)
               [] m.kind = "unsupported" -> Trace(Line("unsupported", name, ct.s, <<>>, 0, 0))
               [] OTHER -> acc

\* The body of `for step in logic_steps`, applied to the accumulator.
StepBody(step, ctx, acc) ==
    LET name == StepName(step)
        ct == ChargeType(step)
        condition == _normalize_condition(step)
        Trace(line) == Acc(acc.total_expected, Append(acc.trace_log, line),
                           acc.min_candidates, FALSE)
        cond == _safe_eval(condition, ctx)
        minv == FloatOf(Or(Get(step.value, Num(0)), Num(0)))
        m == MonetaryStep(step, ct.s, ctx)
    IN  IF ~ct.ok THEN Acc(acc.total_expected, acc.trace_log, acc.min_candidates, TRUE)
        ELSE IF ct.s = "" /\ step.note.t # "absent"
        THEN Trace(Line("informational", name, "", <<>>, 0, 0))
        ELSE IF ct.s \in ReferenceTypes
        THEN Trace(Line("reference", name,
                        Or(Or(GetNone(step.reference), GetNone(step.note)),
                           Str(<<"Reference-only step.">>)).s[1], <<>>, 0, 0))
        ELSE IF condition # <<"Always">> /\ ~cond.ok
        THEN Acc(acc.total_expected, acc.trace_log, acc.min_candidates, TRUE)
        ELSE IF ~ConditionPasses(condition, cond.v)
        THEN Trace(Line("condition_false", name, "", condition, 0, 0))
        ELSE IF ct.s \in MinimumTypes
        THEN IF minv.ok
             THEN RecordMinimum(acc, name, minv.n)
             ELSE acc
        ELSE CASE m.kind = "cost" ->
                    Acc(acc.total_expected + m.cost,
                        Append(acc.trace_log, Line("amount", name, "", <<>>, Fmt2(m.cost), 0)),
                        acc.min_candidates, FALSE)
               [] m.kind = "unsupported" -> Trace(Line("unsupported", name, ct.s, <<>>, 0, 0))
               [] OTHER -> acc

\* A minimum block that also adjusts a total equal to the minimum.
ApplyMinimumNotStrict(acc) ==
    IF acc.min_candidates # <<>> /\ acc.total_expected <= MinRequired(acc.min_candidates)
    THEN Acc(MinRequired(acc.min_candidates),
             Append(acc.trace_log,
                    Line("minimum_adjustment", "", "", <<>>,
                         Fmt2(MinRequired(acc.min_candidates)),
                         Fmt2(MinRequired(acc.min_candidates) - acc.total_expected))),
             acc.min_candidates, FALSE)
    ELSE acc

\* The minimum-charge block after the loop.
ApplyMinimum(acc) ==
    IF acc.min_candidates # <<>> /\ acc.total_expected < MinRequired(acc.min_candidates)
    THEN Acc(MinRequired(acc.min_candidates),
             Append(acc.trace_log,
                    Line("minimum_adjustment", "", "", <<>>,
                         Fmt2(MinRequired(acc.min_candidates)),
                         Fmt2(MinRequired(acc.min_candidates) - acc.total_expected))),
             acc.min_candidates, FALSE)
    ELSE acc

\* ------------------------------------------------------------ rule store
\* A tariff document: kind is "list" (a JSON array of items), "wrapped"
\* ({"tariffs": [...]}), "object" (a JSON object without "tariffs"),
\* "invalid" (not JSON) or "missing" (no such file).
Doc(kind, items) == [kind |-> kind, items |-> items]

\* One entry of the document.  logic_steps is a pair [t, s]: t = "list"
\* with the steps s, or "absent" / "none".
Item(sc, steps, note) ==
    [sc_code |-> sc, logic_steps |-> steps, note |-> note, notes |-> Absent]

StepList(seq) == [t |-> "list", s |-> seq]

NoSteps == [t |-> "absent", s |-> <<>>]

\* "logic_steps": null
NullSteps == [t |-> "none", s |-> <<>>]

\* The mapping built by the loop of _load_logic: a later item replaces an
\* earlier one under the same key.
IndexItems(items) ==
    LET key(i) == _normalize_sc_code(items[i].sc_code)
        keys == {key(i) : i \in 1..Len(items)}
    IN  [k \in keys |-> items[MaxOf({i \in 1..Len(items) : key(i) = k})]]

EmptyMap == [k \in {} |-> Absent]

\* An index in which the first item of a key is kept.
LoadLogicFirstWins(doc) ==
    IF doc.kind \notin {"list", "wrapped"} THEN EmptyMap
    ELSE IF \E i \in 1..Len(doc.items) : doc.items[i].sc_code.t = "absent" THEN EmptyMap
    ELSE LET key(i) == _normalize_sc_code(doc.items[i].sc_code)
             keys == {key(i) : i \in 1..Len(doc.items)}
         IN  [k \in keys |-> doc.items[MinOf({i \in 1..Len(doc.items) : key(i) = k})]]

\* A loader that keeps the items it indexed before the malformed one.
LoadLogicPartial(doc) ==
    IF doc.kind \notin {"list", "wrapped"} THEN EmptyMap
    ELSE LET bad == {i \in 1..Len(doc.items) : doc.items[i].sc_code.t = "absent"}
             n == IF bad = {} THEN Len(doc.items) ELSE MinOf(bad) - 1
         IN  IF n = 0 THEN EmptyMap ELSE IndexItems(SubSeq(doc.items, 1, n))

\* A loader that leaves out the items it cannot index and keeps the others.
LoadLogicSkipsBad(doc) ==
    IF doc.kind \notin {"list", "wrapped"} THEN EmptyMap
    ELSE LET SelectGood(i) == doc.items[i].sc_code.t # "absent"
             good == {i \in 1..Len(doc.items) : SelectGood(i)}
             key(i) == _normalize_sc_code(doc.items[i].sc_code)
         IN  [k \in {key(i) : i \in good} |->
                 doc.items[MaxOf({i \in good : key(i) = k})]]

\* _load_logic: {} when the file is missing, is not JSON, is not a list of
\* objects, or holds an item without "sc_code" (any exception empties it).
_load_logic(doc) ==
    IF doc.kind \notin {"list", "wrapped"} THEN EmptyMap
    ELSE IF \E i \in 1..Len(doc.items) : doc.items[i].sc_code.t = "absent" THEN EmptyMap
    ELSE IndexItems(doc.items)

\* logic.get("logic_steps") or []
LogicSteps(logic) ==
    IF logic.logic_steps.t = "list" THEN logic.logic_steps.s ELSE <<>>

\* ------------------------------------------------------ evaluation context
\* float(row.get(key, 0) or 0)
FloatOrZero(v) == FloatOf(Or(Get(v, Num(0)), Num(0)))

\* int(x): truncation of a number; ok is FALSE for NaN and for a
\* non-numeric string (ValueError).
IntOf(v) ==
    IF v.t = "num" THEN [ok |-> TRUE, n |-> 1000 * (v.n \div 1000)]
    ELSE [ok |-> FALSE, n |-> 0]

\* int(row.get("days_used", 30) or 30)
DaysUsed(v) == IntOf(Or(Get(v, Num(30000)), Num(30000)))

\* pd.to_datetime on a string bill_date: a date string becomes a Timestamp, an
\* unparseable string stays as it is; other values are not touched.
BillDate(v) == IF v.t = "datestr" THEN Ts(v.n) ELSE GetNone(v)

\* row.get("delivery_voltage_kv") or row.get("delivery_voltage"), then
\* float() under try/except: None when absent or not a number.
DeliveryVoltage(row) ==
    LET x == Or(GetNone(row.delivery_voltage_kv), GetNone(row.delivery_voltage))
    IN  IF x.t # "none" /\ FloatOf(x).ok THEN Num(FloatOf(x).n) ELSE None

\* Lines 215-245: ok is FALSE when building user_context raises.
BuildContext(row) ==
    LET kwh == FloatOrZero(row.billed_kwh)
        kw == FloatOrZero(row.billed_demand)
        rkva == FloatOrZero(row.billed_rkva)
        days == DaysUsed(row.days_used)
    IN  [ok |-> kwh.ok /\ kw.ok /\ rkva.ok /\ days.ok,
         user |-> [billed_kwh |-> kwh.n, billed_demand |-> kw.n, billed_rkva |-> rkva.n,
                   days_used |-> days.n, bill_date |-> BillDate(row.bill_date)],
         pd |-> Obj,
         time_of_use |-> GetNone(row.time_of_use),
         delivery_voltage |-> DeliveryVoltage(row)]

NoContext ==
    [ok |-> FALSE,
     user |-> [billed_kwh |-> 0, billed_demand |-> 0, billed_rkva |-> 0,
               days_used |-> 0, bill_date |-> None],
     pd |-> Obj, time_of_use |-> None, delivery_voltage |-> None]

\* ----------------------------------------------------------------- results
NoResult == [status |-> "NONE"]

\* A reason that names the normalized code only.
NoLogicReasonNormalized(raw_sc, sc_code) ==
    [Line("no_logic", "", "", <<>>, 0, 0) EXCEPT !.raw = Str(sc_code), !.norm = sc_code]

\* The reason of a record without tariff: f"No logic for {raw_sc} (normalized={sc_code})".
NoLogicReason(raw_sc, sc_code) ==
    [Line("no_logic", "", "", <<>>, 0, 0) EXCEPT !.raw = raw_sc, !.norm = sc_code]

\* A reason that does not read the tariff's note.
NoStepsReasonWithoutNote(raw_sc, logic) ==
    [Line("no_steps", "", "No active rate logic.", <<>>, 0, 0) EXCEPT !.raw = raw_sc]

\* The reason of a tariff without steps: f"{raw_sc}: {note}".
NoStepsReason(raw_sc, logic) ==
    [Line("no_steps", "",
          Or(Or(GetNone(logic.note), GetNone(logic.notes)),
             Str(<<"No active rate logic.">>)).s[1], <<>>, 0, 0)
     EXCEPT !.raw = raw_sc]

\* A SKIPPED result without the "reason" key.
SkippedWithoutReason(reason, sc_code) ==
    [status |-> "SKIPPED", sc_code |-> sc_code, expected_amount |-> 0,
     expected_bill |-> 0, variance |-> 0, trace |-> <<reason>>]

\* A SKIPPED result that carries no amounts.
SkippedWithoutAmounts(reason, sc_code) ==
    [status |-> "SKIPPED", reason |-> reason, sc_code |-> sc_code, trace |-> <<reason>>]

Skipped(reason, sc_code) ==
    [status |-> "SKIPPED", reason |-> reason, sc_code |-> sc_code, expected_amount |-> 0,
     expected_bill |-> 0, variance |-> 0, trace |-> <<reason>>]

\* A variance of the opposite sign.
VarianceReversed(total_expected, actual_bill) == actual_bill - total_expected

\* variance = total_expected - actual_bill
Variance(total_expected, actual_bill) == total_expected - actual_bill

\* A result whose variance is the difference of the rounded fields.
SuccessRoundedFields(sc_code, actual_bill, total_expected, trace_log) ==
    [status |-> "SUCCESS", sc_code |-> sc_code, actual_bill |-> Round2(actual_bill),
     expected_bill |-> Round2(total_expected),
     variance |-> Round2(total_expected) - Round2(actual_bill), trace |-> trace_log]

Success(sc_code, actual_bill, total_expected, trace_log) ==
    [status |-> "SUCCESS", sc_code |-> sc_code, actual_bill |-> Round2(actual_bill),
     expected_bill |-> Round2(total_expected),
     variance |-> Round2(Variance(total_expected, actual_bill)), trace |-> trace_log]

\* ------------------------------------------------ the tariffs of the model
Always == Str(<<"Always">>)

Ct(name) == Str(<<name>>)

\* {"0-2.2 kV": 0.088, "2.2-15 kV": 0.081, "Over 60 kV": 0.070}
TiersAscending ==
    Tiers(<<Tier(TierKey(FALSE, <<0, 2200>>), Num(88)),
            Tier(TierKey(FALSE, <<2200, 15000>>), Num(81)),
            Tier(TierKey(TRUE, <<60000>>), Num(70))>>)

\* The same bands with the upper band written first, a single-number key
\* and a key without a number.
TiersDescending ==
    Tiers(<<Tier(TierKey(FALSE, <<22000>>), Bad),
            Tier(TierKey(FALSE, <<2200, 15000>>), Num(81)),
            Tier(TierKey(FALSE, <<0, 2200>>), Num(88)),
            Tier(TierKey(TRUE, <<>>), Num(5))>>)

CustomerCharge == Step("Customer Charge", Ct("fixed_fee"), Num(100), Always)

EnergyCharge == Step("Energy Charge", Ct("per_kwh"), TiersAscending, Always)

EnergyChargeDescending ==
    [Step("Energy Charge", Str(<<" ", "energy_charge", " ">>), TiersDescending, Absent)
     EXCEPT !.unit = Str(<<"per kWh">>)]

MinBill20 == Step("Min Bill", Ct("minimum_charge"), Num(200), Absent)

MinBill25 == Step("Min Bill 25", Ct("minimum_bill"), Num(250), Always)

MinBillHighVoltage ==
    Step("Min Bill HV", Ct("minimum_charge"), Num(900),
         Str(<<"delivery_voltage", ">", "15", " kV">>))

MinBillUnparsable == Step("Min Bill Text", Ct("minimum_charge"), Bad, Always)

DemandCharge ==
    [Step("Demand Charge", Ct("per_kw"), Num(50), Str(<<"delivery_voltage", "<=", "15", " kV">>))
     EXCEPT !.demand_kw = Str(<<"min", "(", "1", ",", "user.billed_demand", ")">>)]

DemandFee ==
    [Step("Demand Fee", Ct("demand_fee"), Num(30), Always)
     EXCEPT !.formula = Str(<<"user.billed_demand", "*", "user.days_used">>),
            !.unit = Str(<<"user.billed_kwh">>)]

ReactiveFee ==
    [Step("Reactive Fee", Ct("per_rkva"), Num(20), Str(<<"time_of_use", "==", "'On Peak'">>))
     EXCEPT !.unit = Str(<<"kVA">>)]

SummerCharge ==
    Step("Summer Charge", Ct("fixed_fee"), Num(15),
         Str(<<"user.bill_date.month", ">=", "6">>))

UndefinedFormula ==
    [Step("Undefined Formula", Ct("per_kwh"), Num(88), Always)
     EXCEPT !.unit = Str(<<"user.billed_kwh", "*", "undefined_var">>)]

DivisionByZero ==
    [Step("Division", Ct("per_kw"), Num(50), Always)
     EXCEPT !.formula = Str(<<"user.billed_demand", "/", "0">>)]

DateQuantity ==
    [Step("Date Quantity", Ct("per_rkva"), Num(20), Always)
     EXCEPT !.demand_rkva = Str(<<"user.bill_date">>)]

UndefinedCondition ==
    Step("Undefined Condition", Ct("fixed_fee"), Num(40), Str(<<"undefined_var", ">", "0">>))

ModuleCondition == Step("Module Condition", Ct("fixed_fee"), Num(7), Str(<<"pd">>))

TextRate == Step("Text Rate", Ct("fixed_fee"), Bad, None)

Surcharge == Step("Surcharge", Ct("surcharge"), Num(60), Always)

Informational ==
    [Step("Info", Absent, Num(500), Str(<<"undefined_var", ">", "0">>))
     EXCEPT !.note = Str(<<"See leaf 12.">>)]

Reference ==
    [Step("Reference", Ct("energy_rate"), Num(500), Str(<<"undefined_var", ">", "0">>))
     EXCEPT !.reference = Str(<<"Rates of SC1 apply.">>)]

AbsDemand ==
    [Step("Abs Demand", Ct("demand_charge"), Num(50), Always)
     EXCEPT !.unit = Str(<<"abs", "(", "user.billed_demand", ")">>)]

RoundedEnergy ==
    [Step("Rounded Energy", Ct("per_kwh"), Num(88), Always)
     EXCEPT !.applies_to = Str(<<"round", "(", "user.billed_kwh", ")">>)]

NumericChargeType == Step("Numeric Type", Num(5000), Num(100), Always)

Unnamed == [Step("", Ct("fixed_fee"), Num(10), Always) EXCEPT !.step_name = Absent]

Code(s) == Str(s)

SC1 == Item(Code(<<"S", "C", "-", "1">>), StepList(<<CustomerCharge, EnergyCharge, MinBill20>>), Absent)

SC1Later ==
    Item(Code(<<"S", "C", "1">>),
         StepList(<<MinBill25, CustomerCharge, MinBill20, EnergyCharge>>), Absent)

SC2 == Item(Code(<<"s", "c", "2">>), StepList(<<>>), Str(<<"Canceled.">>))

SC2NoSteps == Item(Code(<<"S", "C", "2">>), NoSteps, Absent)

SC3 ==
    Item(Code(<<"S", "C", " ", "3">>),
         StepList(<<MinBill20, EnergyChargeDescending, DemandCharge, MinBillHighVoltage,
                    DemandFee, ReactiveFee, SummerCharge, MinBillUnparsable, MinBill25>>),
         Absent)

SC4 ==
    Item(Code(<<"S", "C", "4">>),
         StepList(<<Informational, UndefinedFormula, Reference, UndefinedCondition,
                    DivisionByZero, Surcharge, DateQuantity, TextRate, ModuleCondition,
                    Unnamed, CustomerCharge>>),
         Absent)

SC5 ==
    Item(Code(<<"S", "C", "5">>),
         StepList(<<AbsDemand, RoundedEnergy, NumericChargeType, Unnamed>>), Absent)

\* A tariff whose steps sum to its minimum exactly.
MinBillExact == Step("Min Bill Exact", Ct("minimum_bill"), Num(110), Always)

SC6 ==
    Item(Code(<<"S", "C", "6">>), StepList(<<CustomerCharge, MinBillExact, Unnamed>>),
         Absent)

\* Demand steps whose preferred field is present but is no user.*
\* expression, next to a field that is one.
DemandKwUnit ==
    [Step("Demand kW Unit", Ct("per_kw"), Num(50), Always)
     EXCEPT !.demand_kw = Str(<<"kW">>), !.formula = Str(<<"user.billed_kwh">>)]

DemandKwNull ==
    [Step("Demand kW Null", Ct("demand_charge"), Num(30), Always)
     EXCEPT !.demand_kw = None, !.unit = Str(<<"user.billed_kwh">>)]

FormulaUnit ==
    [Step("Formula Unit", Ct("demand_fee"), Num(20), Always)
     EXCEPT !.formula = Str(<<"kW">>), !.unit = Str(<<"user.billed_kwh">>)]

UnitOnly ==
    [Step("Unit Only", Ct("per_kw"), Num(10), Always)
     EXCEPT !.formula = Str(<<>>), !.unit = Str(<<"user.billed_kwh">>)]

PlainDemand == Step("Plain Demand", Ct("per_kw"), Num(40), Always)

\* Energy steps whose quantity is named by applies_to.
EnergyAppliesTo ==
    [Step("Energy Applies To", Ct("energy_charge"), Num(60), Always)
     EXCEPT !.applies_to = Str(<<"user.billed_demand">>)]

EnergyPerKwh ==
    [Step("Energy Per kWh", Ct("per_kwh"), Num(70), Always)
     EXCEPT !.unit = Str(<<"per kWh">>), !.applies_to = Str(<<"user.billed_demand">>)]

SC8 ==
    Item(Code(<<"S", "C", "8">>),
         StepList(<<DemandKwUnit, DemandKwNull, FormulaUnit, UnitOnly, PlainDemand,
                    EnergyAppliesTo, EnergyPerKwh>>), Absent)

\* A reference-only class: "logic_steps": null and a "notes" text.
SC7 ==
    [Item(Code(<<"S", "C", "7">>), NullSteps, Str(<<>>))
     EXCEPT !.notes = Str(<<"See SC1.">>)]

NoCode == Item(Absent, StepList(<<CustomerCharge>>), Absent)

\* The tariff documents an engine is constructed from.
Docs ==
    <<Doc("list", <<SC1, SC2, SC3, SC4, SC5, SC6, SC7, SC8>>),
      Doc("wrapped", <<SC1, SC4, SC2NoSteps, SC1Later>>),
      Doc("list", <<SC1, NoCode, SC3>>),
      Doc("object", <<>>),
      Doc("invalid", <<>>),
      Doc("missing", <<>>)>>

\* ------------------------------------------------------- the usage records
DateStr(month) == [t |-> "datestr", n |-> month, s |-> <<>>]

BaseRow ==
    [service_class |-> Code(<<"S", "C", "-", "1">>), billed_kwh |-> Num(1000),
     billed_demand |-> Num(1000), billed_rkva |-> Num(1000), days_used |-> Num(30000),
     bill_date |-> DateStr(7), delivery_voltage |-> Num(2200), delivery_voltage_kv |-> Absent,
     time_of_use |-> Str(<<"On Peak">>), bill_amount |-> Num(200)]

ServiceClasses ==
    {Code(<<"S", "C", "-", "1">>), Code(<<"s", "c", "1">>), Code(<<"S", "C", " ", "1">>),
     Code(<<"s", "c", "-", "2">>), Code(<<"S", "C", "3">>), Code(<<"s", "c", " ", "4">>),
     Code(<<"S", "C", "5">>), Code(<<"S", "C", "6">>), Code(<<"s", "c", "7">>),
     Code(<<"S", "C", "8">>), Code(<<"S", "C", "9", "9">>), Absent, None, NaN}

Voltages == {Absent, Num(2200), Num(15000), Num(22000)}

BillAmounts == {Absent, Num(4), Num(176), Num(255), Num(1000)}

\* Records with well-formed fields.
RegularRows ==
    {[BaseRow EXCEPT !.service_class = sc, !.billed_kwh = Num(1000 * kwh),
                     !.billed_demand = Num(1000 * kw), !.delivery_voltage = v,
                     !.bill_amount = amt] :
        sc \in ServiceClasses, kwh \in 0..MaxKwh, kw \in 0..MaxDemand, v \in Voltages,
        amt \in BillAmounts}

NumericFields == {"billed_kwh", "billed_demand", "billed_rkva", "days_used", "bill_amount"}

\* Records with one missing, null, zero, fractional or malformed field.
IrregularRows ==
    {[BaseRow EXCEPT !.service_class = sc, ![f] = v] :
        sc \in {Code(<<"S", "C", "-", "1">>), Code(<<"S", "C", "4">>)},
        f \in NumericFields, v \in {Absent, None, Bad, Num(0), Num(1500)}}
    \cup {[BaseRow EXCEPT !.days_used = NaN]}
    \cup {[BaseRow EXCEPT !.service_class = Code(<<"S", "C", "3">>), !.bill_date = d,
                          !.time_of_use = tou, !.delivery_voltage_kv = kv] :
            d \in {Absent, None, Bad, DateStr(2)},
            tou \in {Absent, Str(<<"Off Peak">>)},
            kv \in {Num(0), Bad, Num(70000)}}

Rows == RegularRows \cup IrregularRows

\* ------------------------------------------------------------------- state
VARIABLES
    document,         \* the tariff document the engine was constructed from
    tariff_map,       \* AuditEngine.tariff_map
    pc,               \* per audit: "idle", "steps", "minimum", "return", "done",
                      \*            "reported", "raised"
    row,              \* per audit: the usage record passed by the caller
    sc_code,          \* per audit: the normalized service class
    logic_steps,      \* per audit: the steps of the selected tariff
    eval_context,     \* per audit: the evaluation context
    idx,              \* per audit: the position of the loop in logic_steps
    total_expected,   \* per audit: the running total
    trace_log,        \* per audit: the trace
    min_candidates,   \* per audit: the minimum candidates
    result,           \* per audit: the returned AuditResult
    audit_row         \* per audit: the row the pipeline adds to its report

vars ==
    <<document, tariff_map, pc, row, sc_code, logic_steps, eval_context, idx,
      total_expected, trace_log, min_candidates, result, audit_row>>

engine == <<document, tariff_map>>

Audits == DOMAIN pc

\* No report row: the pipeline has not got a result for its record.
NoAuditRow ==
    [Audit_SC |-> <<>>, Expected_Bill |-> 0, Variance |-> 0, Match_Status |-> "",
     Logic_Trace |-> <<>>]

\* "Match" if abs(result.get('variance', 0)) < 0.10 else "Mismatch"
MatchStatus(res) ==
    LET variance == IF "variance" \in DOMAIN res THEN res.variance ELSE 0
    IN  IF variance > -100 /\ variance < 100 THEN "Match" ELSE "Mismatch"

\* The columns the pipeline adds to the bill row (run_audit.py, 133-140).
AuditRow(res) ==
    [Audit_SC |-> res.sc_code, Expected_Bill |-> res.expected_bill,
     Variance |-> res.variance, Match_Status |-> MatchStatus(res),
     Logic_Trace |-> res.trace]

\* The state after AuditEngine(path), with `n` callers that have not called yet.
InitWith(n) ==
    /\ \E d \in 1..Len(Docs) : document = Docs[d]
    /\ tariff_map = _load_logic(document)
    /\ pc = [a \in 1..n |-> "idle"]
    /\ row = [a \in 1..n |-> BaseRow]
    /\ sc_code = [a \in 1..n |-> <<>>]
    /\ logic_steps = [a \in 1..n |-> <<>>]
    /\ eval_context = [a \in 1..n |-> NoContext]
    /\ idx = [a \in 1..n |-> 0]
    /\ total_expected = [a \in 1..n |-> 0]
    /\ trace_log = [a \in 1..n |-> <<>>]
    /\ min_candidates = [a \in 1..n |-> <<>>]
    /\ result = [a \in 1..n |-> NoResult]
    /\ audit_row = [a \in 1..n |-> NoAuditRow]

Init == InitWith(1)

\* The accumulator of audit a.
AccOf(a) == Acc(total_expected[a], trace_log[a], min_candidates[a], FALSE)

\* Accumulators on the shared engine: an update reaches every audit.
SetAccShared(a, acc) ==
    /\ total_expected' = [b \in Audits |-> acc.total_expected]
    /\ trace_log' = [b \in Audits |-> acc.trace_log]
    /\ min_candidates' = [b \in Audits |-> acc.min_candidates]

SetAcc(a, acc) ==
    /\ total_expected' = [total_expected EXCEPT ![a] = acc.total_expected]
    /\ trace_log' = [trace_log EXCEPT ![a] = acc.trace_log]
    /\ min_candidates' = [min_candidates EXCEPT ![a] = acc.min_candidates]

\* Accumulators that a call inherits from the call before it.
NewAccKept(a) == AccOf(a)

\* Lines 247-249: every call starts with a zero total and empty lists.
NewAcc(a) == Acc(0, <<>>, <<>>, FALSE)

\* tariff_map.get(sc_code): [found, logic]
Lookup(map, code) ==
    IF code \in DOMAIN map THEN [found |-> TRUE, logic |-> map[code]]
    ELSE [found |-> FALSE, logic |-> Item(Absent, NoSteps, Absent)]

\* row.get("service_class", "SC1")
RawSc(r) == Get(r.service_class, Code(<<"S", "C", "1">>))

\* calculate_expected_bill, lines 183-249: the lookup, the two SKIPPED
\* returns, the evaluation context and the empty accumulator.
Audit(a, r) ==
    LET raw_sc == RawSc(r)
        code == _normalize_sc_code(raw_sc)
        hit == Lookup(tariff_map, code)
        steps == LogicSteps(hit.logic)
        ctx == BuildContext(r)
    IN  /\ pc[a] = "idle"
        /\ row' = [row EXCEPT ![a] = r]
        /\ sc_code' = [sc_code EXCEPT ![a] = code]
        /\ IF ~hit.found
           THEN /\ result' = [result EXCEPT ![a] = Skipped(NoLogicReason(raw_sc, code), code)]
                /\ pc' = [pc EXCEPT ![a] = "done"]
                /\ UNCHANGED <<logic_steps, eval_context, idx>>
           ELSE IF steps = <<>>
           THEN /\ result' = [result EXCEPT ![a] =
                                Skipped(NoStepsReason(raw_sc, hit.logic), code)]
                /\ pc' = [pc EXCEPT ![a] = "done"]
                /\ UNCHANGED <<logic_steps, eval_context, idx>>
           ELSE IF ~ctx.ok
           THEN /\ pc' = [pc EXCEPT ![a] = "raised"]
                /\ UNCHANGED <<logic_steps, eval_context, idx, result>>
           ELSE /\ logic_steps' = [logic_steps EXCEPT ![a] = steps]
                /\ eval_context' = [eval_context EXCEPT ![a] = ctx]
                /\ idx' = [idx EXCEPT ![a] = 1]
                /\ pc' = [pc EXCEPT ![a] = "steps"]
                /\ UNCHANGED result
        /\ SetAcc(a, NewAcc(a))
        /\ UNCHANGED <<engine, audit_row>>

\* One iteration of `for step in logic_steps` (lines 259-396).
ProcessStep(a) ==
    LET acc == StepBody(logic_steps[a][idx[a]], eval_context[a], AccOf(a))
    IN  /\ pc[a] = "steps"
        /\ IF acc.raised
           THEN /\ pc' = [pc EXCEPT ![a] = "raised"]
                /\ UNCHANGED <<idx, total_expected, trace_log, min_candidates>>
           ELSE /\ SetAcc(a, acc)
                /\ idx' = [idx EXCEPT ![a] = idx[a] + 1]
                /\ pc' = [pc EXCEPT ![a] =
                            IF idx[a] = Len(logic_steps[a]) THEN "minimum" ELSE "steps"]
        /\ UNCHANGED <<engine, row, sc_code, logic_steps, eval_context, result, audit_row>>

\* The minimum-charge block (lines 398-409).
Minimum(a) ==
    /\ pc[a] = "minimum"
    /\ SetAcc(a, ApplyMinimum(AccOf(a)))
    /\ pc' = [pc EXCEPT ![a] = "return"]
    /\ UNCHANGED <<engine, row, sc_code, logic_steps, eval_context, idx, result, audit_row>>

\* The caller passes one of the usage records.
Call(a) == pc[a] = "idle" /\ \E r \in Rows : Audit(a, r)

\* float(row.get("bill_amount", 0.0) or 0.0)
ActualBill(r) == FloatOrZero(r.bill_amount)

\* The variance and the SUCCESS return (lines 411-423).
Return(a) ==
    /\ pc[a] = "return"
    /\ IF ActualBill(row[a]).ok
       THEN /\ result' = [result EXCEPT ![a] =
                            Success(sc_code[a], ActualBill(row[a]).n, total_expected[a],
                                    trace_log[a])]
            /\ pc' = [pc EXCEPT ![a] = "done"]
       ELSE /\ pc' = [pc EXCEPT ![a] = "raised"]
            /\ UNCHANGED result
    /\ UNCHANGED <<engine, row, sc_code, logic_steps, eval_context, idx, total_expected,
                   trace_log, min_candidates, audit_row>>

\* The pipeline builds the report row of the returned result and appends it
\* to its report (run_audit.py, lines 132-142).
Report(a) ==
    /\ pc[a] = "done"
    /\ audit_row' = [audit_row EXCEPT ![a] = AuditRow(result[a])]
    /\ pc' = [pc EXCEPT ![a] = "reported"]
    /\ UNCHANGED <<engine, row, sc_code, logic_steps, eval_context, idx, total_expected,
                   trace_log, min_candidates, result>>

\* The caller is done with the result (or the exception) and is ready for
\* the next record; the locals of the finished call are gone.
NextRecord(a) ==
    /\ pc[a] \in {"reported", "raised"}
    /\ pc' = [pc EXCEPT ![a] = "idle"]
    /\ row' = [row EXCEPT ![a] = BaseRow]
    /\ sc_code' = [sc_code EXCEPT ![a] = <<>>]
    /\ logic_steps' = [logic_steps EXCEPT ![a] = <<>>]
    /\ eval_context' = [eval_context EXCEPT ![a] = NoContext]
    /\ idx' = [idx EXCEPT ![a] = 0]
    /\ SetAcc(a, NewAcc(a))
    /\ result' = [result EXCEPT ![a] = NoResult]
    /\ audit_row' = [audit_row EXCEPT ![a] = NoAuditRow]
    /\ UNCHANGED engine

Next ==
    \E a \in Audits :
        \/ Call(a)
        \/ ProcessStep(a)
        \/ Minimum(a)
        \/ Return(a)
        \/ Report(a)
        \/ NextRecord(a)

Spec == Init /\ [][Next]_vars

\* ------------------------------------------- audits on one shared engine
\* The records of the callers that share an engine: a plain record, one at
\* 22 kV with tiers and conditions, one whose tariff has failing steps, one
\* without tariff, one of a canceled class and one that cannot be coerced.
SharedRows ==
    {BaseRow,
     [BaseRow EXCEPT !.service_class = Code(<<"S", "C", "3">>), !.delivery_voltage = Num(22000)],
     [BaseRow EXCEPT !.service_class = Code(<<"s", "c", " ", "4">>), !.bill_amount = Num(4)],
     [BaseRow EXCEPT !.service_class = Code(<<"S", "C", "9", "9">>)],
     [BaseRow EXCEPT !.service_class = Code(<<"s", "c", "-", "2">>)],
     [BaseRow EXCEPT !.billed_kwh = Bad]}

\* Two callers (threads of a worker pool) hold the same AuditEngine.
InitShared == InitWith(2)

CallShared(a) == pc[a] = "idle" /\ \E r \in SharedRows : Audit(a, r)

\* Any caller takes its next step: the audits interleave step by step.
NextShared ==
    \E a \in Audits :
        \/ CallShared(a)
        \/ ProcessStep(a)
        \/ Minimum(a)
        \/ Return(a)
        \/ Report(a)
        \/ NextRecord(a)

SpecShared == InitShared /\ [][NextShared]_vars

\* ------------------------------------------------ one call, run on its own
RECURSIVE RunSteps(_, _, _, _)
\* `for step in logic_steps` from step i on, without interruption; an
\* exception ends the loop.
RunSteps(steps, ctx, acc, i) ==
    IF i > Len(steps) \/ acc.raised THEN acc
    ELSE RunSteps(steps, ctx, StepBody(steps[i], ctx, acc), i + 1)

\* calculate_expected_bill(row) on an engine with the given tariff map, run
\* from its first line to its return: [raised, result].
calculate_expected_bill(map, r) ==
    LET raw_sc == RawSc(r)
        code == _normalize_sc_code(raw_sc)
        hit == Lookup(map, code)
        steps == LogicSteps(hit.logic)
        ctx == BuildContext(r)
        acc == RunSteps(steps, ctx, Acc(0, <<>>, <<>>, FALSE), 1)
        fin == ApplyMinimum(acc)
        actual == ActualBill(r)
    IN  IF ~hit.found
        THEN [raised |-> FALSE, result |-> Skipped(NoLogicReason(raw_sc, code), code)]
        ELSE IF steps = <<>>
        THEN [raised |-> FALSE, result |-> Skipped(NoStepsReason(raw_sc, hit.logic), code)]
        ELSE IF ~ctx.ok \/ acc.raised \/ ~actual.ok
        THEN [raised |-> TRUE, result |-> NoResult]
        ELSE [raised |-> FALSE,
              result |-> Success(code, actual.n, fin.total_expected, fin.trace_log)]

\* ======================================================================
\* Properties
\* ======================================================================
\* The call of audit a has returned; the caller holds the result.
Finished(a) == pc[a] \in {"done", "reported"}

Succeeded(a) == Finished(a) /\ result[a].status = "SUCCESS"

WasSkipped(a) == Finished(a) /\ result[a].status = "SKIPPED"

\* What one step does to an empty accumulator.
Alone(step, ctx) == StepBody(step, ctx, Acc(0, <<>>, <<>>, FALSE))

\* The amount step i of audit a adds when it is processed on its own.
AmountOf(a, i) == Alone(logic_steps[a][i], eval_context[a]).total_expected

\* The minimum candidates step i of audit a records on its own.
CandidatesOf(a, i) ==
    LET c == Alone(logic_steps[a][i], eval_context[a]).min_candidates
    IN  {c[j] : j \in 1..Len(c)}

RECURSIVE SumTo(_, _)
\* The sum of the amounts of the first n steps of audit a.
SumTo(a, n) == IF n = 0 THEN 0 ELSE SumTo(a, n - 1) + AmountOf(a, n)

AllCandidates(a) == UNION {CandidatesOf(a, i) : i \in 1..Len(logic_steps[a])}

Larger(x, y) == IF x >= y THEN x ELSE y

\* C1: in every audit that reaches the SUCCESS return, the unrounded
\* expected total is max(S, M) when a minimum candidate was recorded and S
\* when none was; S is the sum of the amounts of the monetary steps and M
\* the largest recorded minimum candidate.
C1_LargestMinimumWins ==
    \A a \in Audits :
        (pc[a] = "return" \/ Succeeded(a)) =>
            LET S == SumTo(a, Len(logic_steps[a]))
                M == AllCandidates(a)
            IN  total_expected[a] = IF M # {} THEN Larger(S, MaxOf(M)) ELSE S

\* C1 witness: three candidates were recorded, the largest is neither the
\* first nor the last one, and it raised the total.
C1_Witness ==
    \E a \in Audits :
        /\ Succeeded(a)
        /\ Len(min_candidates[a]) = 3
        /\ min_candidates[a][2] > min_candidates[a][1]
        /\ min_candidates[a][2] > min_candidates[a][3]
        /\ total_expected[a] = min_candidates[a][2]
        /\ SumTo(a, Len(logic_steps[a])) < total_expected[a]

\* The audit has a context and a list of steps (it was not skipped and did
\* not fail while the context was built).
Running(a) == logic_steps[a] # <<>>

\* Step i of audit a was processed; it has a tiered value and the record
\* has a voltage.
Tiered(a, i) ==
    /\ Running(a)
    /\ idx[a] > i
    /\ logic_steps[a][i].value.t = "tiers"
    /\ eval_context[a].delivery_voltage.t = "num"

BandOf(a, i, p) == _parse_voltage_tier_key(logic_steps[a][i].value.s[p].key)

\* The rate the resolver gives step i of audit a.
RateOf(a, i) ==
    _select_rate_by_voltage(logic_steps[a][i].value, eval_context[a].delivery_voltage)

\* Tier p of step i ends at the record's voltage and tier q starts at it.
MeetAtVoltage(a, i, p, q) ==
    LET b == eval_context[a].delivery_voltage.n
    IN  /\ p # q
        /\ ~BandOf(a, i, p).inf
        /\ BandOf(a, i, p).high = b
        /\ BandOf(a, i, p).low < b
        /\ BandOf(a, i, q).low = b

\* C2 as stated: whenever one tier ends at the record's voltage and another
\* starts at it, the step is rated with the tier that ends there, whatever
\* the order of the tiers in the mapping.
C2_UpperBoundTierAlways ==
    \A a \in Audits : Running(a) =>
        \A i \in 1..Len(logic_steps[a]) : Tiered(a, i) =>
            \A p, q \in 1..Len(logic_steps[a][i].value.s) :
                MeetAtVoltage(a, i, p, q) =>
                    RateOf(a, i) = RateOrZero(logic_steps[a][i].value.s[p].rate)

\* C2 amended: the tier that ends at the record's voltage is used when no
\* earlier tier of the mapping contains the voltage; when the tier starting
\* at the voltage comes first in the mapping, that tier is used.
C2_UpperBoundTierWhenFirst ==
    \A a \in Audits : Running(a) =>
        \A i \in 1..Len(logic_steps[a]) : Tiered(a, i) =>
            \A p, q \in 1..Len(logic_steps[a][i].value.s) :
                MeetAtVoltage(a, i, p, q) =>
                    LET v == eval_context[a].delivery_voltage.n
                        earlier(k) == \E j \in 1..(k - 1) : InBand(BandOf(a, i, j), v)
                    IN  /\ ~earlier(p) =>
                            RateOf(a, i) = RateOrZero(logic_steps[a][i].value.s[p].rate)
                        /\ (q < p /\ ~earlier(q)) =>
                            RateOf(a, i) = RateOrZero(logic_steps[a][i].value.s[q].rate)

\* C2 witness: a finished audit of a record at 2.2 kV whose energy step has
\* the tier "0-2.2 kV" before "2.2-15 kV"; the trace shows 1 kWh at 0.088.
C2_Witness ==
    \E a \in Audits :
        /\ Succeeded(a)
        /\ eval_context[a].delivery_voltage = Num(2200)
        /\ eval_context[a].user.billed_kwh = 1000
        /\ Tiered(a, 2)
        /\ MeetAtVoltage(a, 2, 1, 2)
        /\ RateOf(a, 2) = 88
        /\ result[a].trace[2].kind = "amount"
        /\ result[a].trace[2].amt = Fmt2(88)

\* ----------------------------------------------------------------------
Lower(c) ==
    CASE c = "S" -> "s"
      [] c = "C" -> "c"
      [] OTHER -> c

Letters(code) == SelectSeq(SelectSeq(code.s, NotHyphen), NotSpace)

\* Two codes differ only in letter case, spaces or hyphens.
SameCode(x, y) ==
    /\ x.t = "str"
    /\ y.t = "str"
    /\ Len(Letters(x)) = Len(Letters(y))
    /\ \A i \in 1..Len(Letters(x)) : Lower(Letters(x)[i]) = Lower(Letters(y)[i])

\* The entries of the loaded document whose code is the record's code up
\* to case, spaces and hyphens.
EntriesFor(a) ==
    {i \in 1..Len(document.items) :
        SameCode(document.items[i].sc_code, row[a].service_class)}

\* C3: a record whose service class differs from a stored entry's sc_code
\* only in case, spaces or hyphens resolves to that entry (the last such
\* entry of the document); store keys and lookup keys are fixed points of
\* the normalization.
C3_SameCodeSameTariff ==
    \A a \in Audits :
        /\ \A k \in DOMAIN tariff_map : _normalize_sc_code(Str(k)) = k
        /\ pc[a] # "idle" => _normalize_sc_code(Str(sc_code[a])) = sc_code[a]
        /\ (pc[a] # "idle" /\ DOMAIN tariff_map # {} /\ EntriesFor(a) # {}) =>
              LET entry == document.items[MaxOf(EntriesFor(a))]
                  hit == Lookup(tariff_map, sc_code[a])
              IN  /\ hit.found
                  /\ hit.logic.sc_code = entry.sc_code
                  /\ Len(LogicSteps(hit.logic)) = Len(LogicSteps(entry))
                  /\ WasSkipped(a) => result[a].reason.kind = "no_steps"
                  /\ Running(a) => Len(logic_steps[a]) = Len(LogicSteps(entry))

\* C3 witness: the record says "sc1", the document says "SC-1", and the
\* audit ran the tariff.
C3_Witness ==
    \E a \in Audits :
        /\ Succeeded(a)
        /\ row[a].service_class = Code(<<"s", "c", "1">>)
        /\ \E i \in EntriesFor(a) : document.items[i].sc_code = Code(<<"S", "C", "-", "1">>)

\* ----------------------------------------------------------------------
\* The record's normalized service class has no tariff, or a tariff
\* without steps.
NoTariffLogic(a) ==
    LET code == _normalize_sc_code(RawSc(row[a]))
    IN  \/ code \notin DOMAIN tariff_map
        \/ tariff_map[code].logic_steps.t # "list"
        \/ tariff_map[code].logic_steps.s = <<>>

\* The condition of the step fails to evaluate (eval raises).
ConditionFails(step, ctx) ==
    /\ _normalize_condition(step) # <<"Always">>
    /\ _normalize_condition(step) # <<>>
    /\ ~Eval(_normalize_condition(step), ctx).ok

\* The step multiplies its rate with a quantity expression.
PerUnit(step) ==
    /\ ChargeType(step).ok
    /\ ChargeType(step).s \in KwhTypes \cup KwTypes \cup RkvaTypes

\* The quantity expression or formula of the step fails to evaluate, or
\* evaluates to something that is not a number (type mismatch).
QuantityFails(step, ctx) ==
    /\ PerUnit(step)
    /\ LET e == Eval(QuantityExprOf(step, ChargeType(step).s), ctx)
       IN  ~e.ok \/ (Truthy(e.v) /\ e.v.t \notin {"num", "bool"})

\* The step is one whose charge type is reached by the condition check.
Conditional(step) ==
    /\ ChargeType(step).ok
    /\ ~(ChargeType(step).s = "" /\ step.note.t # "absent")
    /\ ChargeType(step).s \notin ReferenceTypes

\* The step at which the loop of audit a stands.
Current(a) == logic_steps[a][idx[a]]

\* C4: a returned status is SUCCESS or SKIPPED; it is SKIPPED exactly when
\* the normalized service class has no tariff or a tariff without steps; a
\* step in which a condition, formula, rate or tier fails neither stops the
\* loop nor keeps the audit from returning SUCCESS.
C4_StatusSuccessOrSkipped ==
    \A a \in Audits :
        /\ Finished(a) => result[a].status \in {"SUCCESS", "SKIPPED"}
        /\ Finished(a) => (result[a].status = "SKIPPED" <=> NoTariffLogic(a))
        /\ (pc[a] = "raised" /\ Running(a) /\ idx[a] <= Len(logic_steps[a])) =>
              ~ChargeType(Current(a)).ok
        /\ (Finished(a) /\ Running(a)) => result[a].status = "SUCCESS"

\* C4 witness: a SUCCESS result of a tariff in which a condition, a formula
\* and a rate failed.
C4_Witness ==
    \E a \in Audits :
        /\ Succeeded(a)
        /\ \E i \in 1..Len(logic_steps[a]) :
              ConditionFails(logic_steps[a][i], eval_context[a])
        /\ \E i \in 1..Len(logic_steps[a]) :
              QuantityFails(logic_steps[a][i], eval_context[a])
        /\ \E i \in 1..Len(logic_steps[a]) : logic_steps[a][i].value.t = "bad"

\* C5 as stated: calculate_expected_bill never raises.
C5_NeverRaises == \A a \in Audits : pc[a] # "raised"

\* The amount step i adds when it does not fail: what it adds on its own.
Contribution(a, i) ==
    IF \/ ConditionFails(logic_steps[a][i], eval_context[a])
       \/ QuantityFails(logic_steps[a][i], eval_context[a])
    THEN 0
    ELSE AmountOf(a, i)

RECURSIVE ContributionsTo(_, _)
ContributionsTo(a, n) ==
    IF n = 0 THEN 0 ELSE ContributionsTo(a, n - 1) + Contribution(a, n)

\* C6: a step whose condition or quantity expression fails to evaluate adds
\* exactly 0; the loop goes on, so that after n steps the total is the sum
\* of the normal amounts of the steps that did not fail; the exception does
\* not leave the step; and the audit returns SUCCESS.
C6_FailedStepAddsZero ==
    \A a \in Audits :
        /\ pc[a] \in {"steps", "minimum"} =>
              total_expected[a] = ContributionsTo(a, idx[a] - 1)
        /\ (pc[a] = "raised" /\ Running(a) /\ idx[a] <= Len(logic_steps[a])) =>
              /\ ~(Conditional(Current(a)) /\ ConditionFails(Current(a), eval_context[a]))
              /\ ~(Conditional(Current(a)) /\ QuantityFails(Current(a), eval_context[a]))
        /\ (Finished(a) /\ Running(a)) => result[a].status = "SUCCESS"

\* C6 witness: a SUCCESS result of a tariff whose second step has a formula
\* with an undefined variable and whose last step added its normal amount.
C6_Witness ==
    \E a \in Audits :
        /\ Succeeded(a)
        /\ Len(logic_steps[a]) = 11
        /\ QuantityFails(logic_steps[a][2], eval_context[a])
        /\ ConditionFails(logic_steps[a][4], eval_context[a])
        /\ AmountOf(a, 11) = 100
        /\ total_expected[a] = 117
        /\ result[a].trace[Len(result[a].trace)].amt = Fmt2(100)

\* ----------------------------------------------------------------------
SixFields == {"status", "sc_code", "actual_bill", "expected_bill", "variance", "trace"}

SkippedFields ==
    {"status", "reason", "sc_code", "expected_amount", "expected_bill", "variance", "trace"}

\* C7 as stated: every returned result, SUCCESS or SKIPPED, carries the six
\* fields status, sc_code, actual_bill, expected_bill, variance and trace.
C7_SixFieldsAlways ==
    \A a \in Audits : Finished(a) => SixFields \subseteq DOMAIN result[a]

\* C7 amended: a SUCCESS result carries exactly the six fields; a SKIPPED
\* result carries status, reason, sc_code, expected_amount, expected_bill,
\* variance and trace, and no actual_bill.
C7_FieldsByStatus ==
    \A a \in Audits :
        /\ Succeeded(a) => DOMAIN result[a] = SixFields
        /\ WasSkipped(a) => DOMAIN result[a] = SkippedFields

\* C7 witness: a SKIPPED result without actual_bill, for a record that
\* carries a bill amount.
C7_Witness ==
    \E a \in Audits :
        /\ WasSkipped(a)
        /\ row[a].bill_amount = Num(176)
        /\ "actual_bill" \notin DOMAIN result[a]
        /\ "reason" \in DOMAIN result[a]

\* ----------------------------------------------------------------------
Abs(x) == IF x < 0 THEN -x ELSE x

\* C8 as stated: in a SUCCESS result the variance is the returned
\* expected_bill minus the returned actual_bill.
C8_VarianceOfRoundedFields ==
    \A a \in Audits :
        Succeeded(a) => result[a].variance = result[a].expected_bill - result[a].actual_bill

\* C8 amended: the variance is round(expected - actual, 2) of the unrounded
\* total and bill amount; it is within one cent of expected_bill minus
\* actual_bill.
C8_VarianceRoundedOnce ==
    \A a \in Audits :
        Succeeded(a) =>
            /\ result[a].variance = Round2(total_expected[a] - ActualBill(row[a]).n)
            /\ result[a].expected_bill = Round2(total_expected[a])
            /\ result[a].actual_bill = Round2(ActualBill(row[a]).n)
            /\ Abs(result[a].variance - (result[a].expected_bill - result[a].actual_bill)) <= 10

\* C8 witness: expected 0.276 against actual 0.004: the fields are 0.28 and
\* 0.00, the variance is 0.27.
C8_Witness ==
    \E a \in Audits :
        /\ Succeeded(a)
        /\ total_expected[a] = 276
        /\ row[a].bill_amount = Num(4)
        /\ result[a].expected_bill = 280
        /\ result[a].actual_bill = 0
        /\ result[a].variance = 270

\* C9: in a SUCCESS result the variance has the sign of expected minus
\* actual: it is >= 0 when the expected total is >= the bill amount and
\* <= 0 when it is <= the bill amount.
C9_VarianceSign ==
    \A a \in Audits :
        Succeeded(a) =>
            /\ total_expected[a] >= ActualBill(row[a]).n => result[a].variance >= 0
            /\ total_expected[a] <= ActualBill(row[a]).n => result[a].variance <= 0

\* C9 witness: the expected total is above the bill amount by more than a
\* cent and the variance is positive.
C9_Witness ==
    \E a \in Audits :
        /\ Succeeded(a)
        /\ total_expected[a] = 276
        /\ row[a].bill_amount = Num(176)
        /\ result[a].variance = 100

\* C10: a record whose normalized service class is not a key of the store
\* is SKIPPED with expected_bill 0; the reason names the service class as
\* the caller gave it and is the only trace entry; no step is processed.
C10_UnknownCodeSkipped ==
    \A a \in Audits :
        (pc[a] # "idle" /\ _normalize_sc_code(RawSc(row[a])) \notin DOMAIN tariff_map) =>
            /\ WasSkipped(a)
            /\ result[a].expected_bill = 0
            /\ result[a].reason.kind = "no_logic"
            /\ result[a].reason.raw = RawSc(row[a])
            /\ row[a].service_class.t # "absent" =>
                  result[a].reason.raw = row[a].service_class
            /\ result[a].trace = <<result[a].reason>>
            /\ logic_steps[a] = <<>>
            /\ idx[a] = 0
            /\ trace_log[a] = <<>>
            /\ total_expected[a] = 0

\* C10 witness: the store holds tariffs, the record says "SC99".
C10_Witness ==
    \E a \in Audits :
        /\ WasSkipped(a)
        /\ DOMAIN tariff_map # {}
        /\ row[a].service_class = Code(<<"S", "C", "9", "9">>)
        /\ result[a].reason.raw = Code(<<"S", "C", "9", "9">>)

\* ----------------------------------------------------------------------
\* The tariff the store holds for the record of audit a.
TariffOf(a) == tariff_map[_normalize_sc_code(RawSc(row[a]))]

\* The record of audit a has a tariff in the store, and the tariff has no
\* steps: the list is empty, null or missing.
ReferenceOnly(a) ==
    /\ _normalize_sc_code(RawSc(row[a])) \in DOMAIN tariff_map
    /\ \/ TariffOf(a).logic_steps.t # "list"
       \/ TariffOf(a).logic_steps.s = <<>>

\* The note of a tariff: "note" when it has text, else "notes" when it has
\* text, else the fixed text.
NoteOf(logic) ==
    IF logic.note.t = "str" /\ logic.note.s # <<>> THEN logic.note.s[1]
    ELSE IF logic.notes.t = "str" /\ logic.notes.s # <<>> THEN logic.notes.s[1]
    ELSE "No active rate logic."

\* C11: a record whose tariff is in the store without steps is SKIPPED with
\* expected_bill 0, the reason is "<service class>: <note of the tariff>"
\* and is the only trace entry; it is never SUCCESS, and no step runs.
C11_NoStepsSkippedWithNote ==
    \A a \in Audits :
        (pc[a] # "idle" /\ ReferenceOnly(a)) =>
            /\ WasSkipped(a)
            /\ result[a].status # "SUCCESS"
            /\ result[a].expected_bill = 0
            /\ result[a].expected_amount = 0
            /\ result[a].variance = 0
            /\ result[a].reason.kind = "no_steps"
            /\ result[a].reason.raw = RawSc(row[a])
            /\ result[a].reason.text = NoteOf(TariffOf(a))
            /\ result[a].trace = <<result[a].reason>>
            /\ logic_steps[a] = <<>>
            /\ total_expected[a] = 0

\* C11 witness: the tariff "sc2" has an empty list and the note "Canceled.";
\* the record "sc-2" is SKIPPED with that note.
C11_Witness ==
    \E a \in Audits :
        /\ WasSkipped(a)
        /\ ReferenceOnly(a)
        /\ row[a].service_class = Code(<<"s", "c", "-", "2">>)
        /\ TariffOf(a).logic_steps = StepList(<<>>)
        /\ result[a].reason.text = "Canceled."

\* ----------------------------------------------------------------------
\* The condition of the step is not "Always" and is falsy or fails to
\* evaluate in the context.
Gated(step, ctx) ==
    LET c == _normalize_condition(step)
    IN  /\ c # <<"Always">>
        /\ \/ ~Eval(c, ctx).ok
           \/ ~Truthy(Eval(c, ctx).v)

\* Audit a processes the step at which its loop stands.
Processes(a) == pc[a] = "steps" /\ idx'[a] = idx[a] + 1

\* What the loop of audit a does with a step that reaches the condition check.
GateStep(a) ==
    LET step == Current(a)
        ctx == eval_context[a]
        ct == ChargeType(step).s
        last == trace_log'[a][Len(trace_log'[a])]
    IN  (Processes(a) /\ Conditional(step)) =>
            IF Gated(step, ctx)
            THEN /\ total_expected'[a] = total_expected[a]
                 /\ min_candidates'[a] = min_candidates[a]
                 /\ Len(trace_log'[a]) = Len(trace_log[a]) + 1
                 /\ SubSeq(trace_log'[a], 1, Len(trace_log[a])) = trace_log[a]
                 /\ last.kind = "condition_false"
                 /\ last.name = StepName(step)
                 /\ last.expr = _normalize_condition(step)
            ELSE /\ \A k \in (Len(trace_log[a]) + 1)..Len(trace_log'[a]) :
                        trace_log'[a][k].kind # "condition_false"
                 /\ ct = "fixed_fee" =>
                        /\ total_expected'[a] = total_expected[a] + RateOf(a, idx[a])
                        /\ last.kind = "amount"
                 /\ (ct \in MinimumTypes /\ step.value.t = "num") =>
                        min_candidates'[a] = Append(min_candidates[a], step.value.n)

\* C12: a step that reaches the condition check with a condition other
\* than "Always" that is falsy or fails to evaluate leaves the total and the
\* minimum candidates as they are and adds the trace line "condition
\* '<condition>' false; skipped."; a step whose condition is "Always" or
\* truthy gets no such line and is processed: a fixed fee adds its rate, a
\* minimum step records its candidate.
C12_ConditionGates == [][\A a \in Audits : GateStep(a)]_vars

\* C12 witness: at 22 kV the step with condition "delivery_voltage <= 15 kV"
\* is in the trace as skipped, the minimum with "delivery_voltage > 15 kV"
\* is a candidate, and the seasonal fee of a July bill was added.
C12_Witness ==
    \E a \in Audits :
        /\ Succeeded(a)
        /\ eval_context[a].delivery_voltage = Num(22000)
        /\ eval_context[a].user.billed_demand = 1000
        /\ Len(logic_steps[a]) = 9
        /\ Gated(logic_steps[a][3], eval_context[a])
        /\ ~Gated(logic_steps[a][4], eval_context[a])
        /\ ~Gated(logic_steps[a][7], eval_context[a])
        /\ result[a].trace[3].kind = "condition_false"
        /\ result[a].trace[3].expr = <<"delivery_voltage", "<=", "15">>
        /\ 900 \in AllCandidates(a)
        /\ \E k \in 1..Len(result[a].trace) :
              result[a].trace[k].name = "Summer Charge" /\ result[a].trace[k].kind = "amount"

\* ----------------------------------------------------------------------
\* The call of audit a has ended: it returned a result or raised.
Ended(a) == pc[a] \in {"done", "reported", "raised"}

\* C13: two calls on one engine with the same usage record end the same
\* way, whatever ran before them or runs between and beside them: both
\* raise, or both return the same result (status, amounts, trace lines in
\* the same order).  One caller keeps its result while the other audits
\* any number of records before it audits the same one.
C13_SameRecordSameResult ==
    \A a, b \in Audits :
        (Ended(a) /\ Ended(b) /\ row[a] = row[b]) =>
            /\ pc[a] = "raised" <=> pc[b] = "raised"
            /\ result[a] = result[b]

\* C13 witness: two finished audits of the same record with the same
\* SUCCESS result and a trace of several lines.
C13_Witness ==
    /\ Succeeded(1)
    /\ Succeeded(2)
    /\ row[1] = row[2]
    /\ row[1].service_class = Code(<<"S", "C", "3">>)
    /\ result[1] = result[2]
    /\ Len(result[1].trace) > 3

\* ----------------------------------------------------------------------
\* The locals of audit a.
LocalsOf(a) ==
    <<pc[a], row[a], sc_code[a], logic_steps[a], eval_context[a], idx[a],
      total_expected[a], trace_log[a], min_candidates[a], result[a], audit_row[a]>>

\* Audit a takes a step.
Acts(a) == pc'[a] # pc[a] \/ idx'[a] # idx[a]

\* A step of one audit leaves the engine as it is, leaves the locals of
\* every other audit as they are, and does not change its own usage record
\* while the call lasts.
Isolated ==
    /\ tariff_map' = tariff_map
    /\ document' = document
    /\ \A a \in Audits :
          /\ Acts(a) => \A b \in Audits \ {a} : LocalsOf(b)' = LocalsOf(b)
          /\ (pc[a] # "idle" /\ pc'[a] # "idle") => row'[a] = row[a]

\* Every ended call ended as it does when run alone on the engine.
AsAlone ==
    \A a \in Audits :
        /\ Finished(a) =>
              /\ ~calculate_expected_bill(tariff_map, row[a]).raised
              /\ result[a] = calculate_expected_bill(tariff_map, row[a]).result
        /\ pc[a] = "raised" => calculate_expected_bill(tariff_map, row[a]).raised

\* C14: with two audits interleaved step by step on one engine, no step
\* changes the tariff map or a usage record, a step of one audit leaves the
\* total, trace and minimum candidates of the other untouched, and every
\* audit ends with the result it has when it runs alone.
C14_ConcurrentAuditsIsolated == []AsAlone /\ [][Isolated]_vars

\* C14 witness: one audit has returned SUCCESS for the 22 kV record while
\* the other is in the middle of the steps of a different record, with a
\* total and a trace of its own.
C14_Witness ==
    /\ Succeeded(1)
    /\ row[1].service_class = Code(<<"S", "C", "3">>)
    /\ pc[2] = "steps"
    /\ idx[2] > 1
    /\ row[2] # row[1]
    /\ trace_log[2] # <<>>
    /\ total_expected[2] > 0
    /\ result[1] = calculate_expected_bill(tariff_map, row[1]).result

\* ----------------------------------------------------------------------
\* The tariff document is missing, is not JSON, or has the wrong shape: an
\* object without "tariffs", or a list with an item without "sc_code".
Malformed(doc) ==
    \/ doc.kind \in {"missing", "invalid", "object"}
    \/ \E i \in 1..Len(doc.items) : doc.items[i].sc_code.t = "absent"

\* C15: an engine constructed from a missing or malformed document has an
\* empty store, and every audit on it returns SKIPPED at the lookup, with
\* the reason "No logic for <service class> ..." as its only trace line;
\* no audit reaches a step or raises.
C15_MalformedDocumentSkipsAll ==
    Malformed(document) =>
        /\ DOMAIN tariff_map = {}
        /\ \A a \in Audits :
              /\ pc[a] \in {"idle", "done", "reported"}
              /\ pc[a] \in {"done", "reported"} =>
                    /\ result[a].status = "SKIPPED"
                    /\ result[a].reason.kind = "no_logic"
                    /\ result[a].reason.raw = RawSc(row[a])
                    /\ result[a].trace = <<result[a].reason>>
                    /\ result[a].expected_bill = 0

\* C15 witness: the document lists SC-1 and then an item without sc_code;
\* a record of SC-1 whose billed_kwh is not a number is SKIPPED.
C15_Witness ==
    \E a \in Audits :
        /\ WasSkipped(a)
        /\ document.kind = "list"
        /\ Malformed(document)
        /\ document.items[1].sc_code = Code(<<"S", "C", "-", "1">>)
        /\ row[a].service_class = Code(<<"S", "C", "-", "1">>)
        /\ row[a].billed_kwh = Bad
        /\ result[a].reason.kind = "no_logic"

\* ----------------------------------------------------------------------
\* The names the claim lists: the record's fields under `user`, the two
\* top-level variables and the four functions.
ListedNames ==
    {"user.billed_kwh", "user.billed_demand", "user.billed_rkva", "user.days_used",
     "user.bill_date", "user.bill_date.month", "time_of_use", "delivery_voltage",
     "min", "max", "abs", "round"}

\* Tokens that are not names: operators, brackets and literals.
Symbols == {"==", "<=", ">", ">=", "*", "/", "(", ")", ",", "'On Peak'"}

\* The expression names an identifier that is not listed.
NamesUnlisted(e) ==
    \E i \in 1..Len(e) : e[i] \notin Symbols /\ NumLit(e[i]) < 0 /\ e[i] \notin ListedNames

\* C16 as stated: a condition that names an identifier outside the listed
\* ones yields the failure value, so the step is skipped as
\* "condition false"; likewise a quantity expression that names one
\* yields the failure value.
C16_OnlyListedNamesResolve ==
    \A a \in Audits : Running(a) =>
        \A i \in 1..Len(logic_steps[a]) :
            LET step == logic_steps[a][i]
                c == _normalize_condition(step)
            IN  (idx[a] > i /\ Conditional(step) /\ c # <<"Always">> /\ NamesUnlisted(c)) =>
                    /\ _safe_eval(c, eval_context[a]).v = None
                    /\ Alone(step, eval_context[a]).total_expected = 0
                    /\ Alone(step, eval_context[a]).trace_log[1].kind = "condition_false"

\* ----------------------------------------------------------------------
\* The trace lines of the steps: the trace without the adjustment line.
StepLines(trace) ==
    LET IsStepLine(l) == l.kind # "minimum_adjustment"
    IN  SelectSeq(trace, IsStepLine)

\* The position in logic_steps of the step a trace line names.
PositionOf(a, line) ==
    CHOOSE i \in 1..Len(logic_steps[a]) : StepName(logic_steps[a][i]) = line.name

\* C17 as stated: in a SUCCESS result every logic step has at least one
\* trace line, the lines of the steps are in the order of logic_steps, and
\* an adjustment line comes after all of them.
C17_EveryStepTraced ==
    \A a \in Audits :
        Succeeded(a) =>
            LET trace == result[a].trace
                lines == StepLines(trace)
            IN  /\ \A i \in 1..Len(logic_steps[a]) :
                      \E k \in 1..Len(lines) : lines[k].name = StepName(logic_steps[a][i])
                /\ \A k, l \in 1..Len(lines) :
                      k < l => PositionOf(a, lines[k]) <= PositionOf(a, lines[l])
                /\ \A k \in 1..Len(trace) :
                      trace[k].kind = "minimum_adjustment" => k = Len(trace)

\* ----------------------------------------------------------------------
\* A numeric field of the record that is a number or is missing.
NumberOrMissing(v) == v.t \in {"num", "absent", "none"}

\* The value of a numeric field, 0 when it is missing.
ZeroIfMissing(v) == IF v.t = "num" THEN v.n ELSE 0

\* days_used is absent or invalid: None, not a number, NaN.
DaysMissingOrInvalid(v) == v.t \in {"absent", "none", "bad", "nan"}

\* days_used is a whole, positive number of days.
DaysValid(v) == v.t = "num" /\ v.n > 0 /\ v.n % 1000 = 0

\* C18 as stated: for a record whose tariff has steps and whose usage
\* fields are numbers or missing, the context is built; a missing
\* billed_kwh, billed_demand or billed_rkva is 0; days_used is 30 when the
\* record's days_used is absent, None, non-numeric or NaN, and is the
\* record's value when that is valid; a missing bill_amount is 0.
C18_ContextDefaults ==
    \A a \in Audits :
        LET r == row[a]
            u == eval_context[a].user
        IN  (/\ pc[a] # "idle"
             /\ ~NoTariffLogic(a)
             /\ NumberOrMissing(r.billed_kwh)
             /\ NumberOrMissing(r.billed_demand)
             /\ NumberOrMissing(r.billed_rkva)) =>
                /\ Running(a)
                /\ u.billed_kwh = ZeroIfMissing(r.billed_kwh)
                /\ u.billed_demand = ZeroIfMissing(r.billed_demand)
                /\ u.billed_rkva = ZeroIfMissing(r.billed_rkva)
                /\ DaysMissingOrInvalid(r.days_used) => u.days_used = 30000
                /\ DaysValid(r.days_used) => u.days_used = r.days_used.n
                /\ (Succeeded(a) /\ r.bill_amount.t \in {"absent", "none"}) =>
                      result[a].actual_bill = 0

\* ----------------------------------------------------------------------
\* The positions of the adjustment lines in a trace.
Adjustments(trace) == {k \in 1..Len(trace) : trace[k].kind = "minimum_adjustment"}

\* The recorded candidates of audit a, as a set.
Recorded(a) == {min_candidates[a][j] : j \in 1..Len(min_candidates[a])}

\* After the minimum block: the trace has an adjustment line exactly when
\* a candidate was recorded and the sum of the steps is strictly below the
\* largest candidate; the line is the last one and states the largest
\* candidate and the difference to the sum.
AdjustmentLine(a) ==
    LET S == SumTo(a, Len(logic_steps[a]))
        trace == trace_log[a]
        last == trace[Len(trace)]
    IN  /\ Adjustments(trace) # {} <=> (Recorded(a) # {} /\ S < MaxOf(Recorded(a)))
        /\ Adjustments(trace) # {} =>
              /\ Adjustments(trace) = {Len(trace)}
              /\ last.amt = Fmt2(MaxOf(Recorded(a)))
              /\ last.adj = Fmt2(MaxOf(Recorded(a)) - S)
              /\ total_expected[a] = MaxOf(Recorded(a))
        /\ Adjustments(trace) = {} => total_expected[a] = S
        /\ Succeeded(a) => result[a].trace = trace

\* The minimum block of audit a: without candidates it changes nothing;
\* with candidates it keeps the trace or appends one line to it.
MinimumStep(a) ==
    (pc[a] = "minimum" /\ pc'[a] = "return") =>
        /\ min_candidates'[a] = min_candidates[a]
        /\ min_candidates[a] = <<>> =>
              /\ total_expected'[a] = total_expected[a]
              /\ trace_log'[a] = trace_log[a]
        /\ \/ trace_log'[a] = trace_log[a]
           \/ /\ Len(trace_log'[a]) = Len(trace_log[a]) + 1
              /\ SubSeq(trace_log'[a], 1, Len(trace_log[a])) = trace_log[a]
        /\ Adjustments(trace_log[a]) = {}

\* C19: the trace of a SUCCESS result has a minimum-charge adjustment line
\* if and only if at least one candidate was recorded and the accumulated
\* total is strictly below the largest candidate; the line states the
\* difference and is the last trace line; without candidates the minimum
\* block leaves total and trace as they are.
C19_AdjustmentLine ==
    /\ [](\A a \in Audits : (pc[a] = "return" \/ Succeeded(a)) => AdjustmentLine(a))
    /\ [][\A a \in Audits : MinimumStep(a)]_vars

\* C19 witness: the steps sum to 0.10, the minimum is 0.20: the last trace
\* line states the minimum 0.20 and the difference +0.10.
C19_Witness ==
    \E a \in Audits :
        /\ Succeeded(a)
        /\ SumTo(a, Len(logic_steps[a])) = 100
        /\ Recorded(a) = {200}
        /\ result[a].expected_bill = 200
        /\ result[a].trace[Len(result[a].trace)].kind = "minimum_adjustment"
        /\ result[a].trace[Len(result[a].trace)].amt = 200
        /\ result[a].trace[Len(result[a].trace)].adj = 100

\* ----------------------------------------------------------------------
\* The list s with its element i moved to position j, the other elements
\* keeping their order.
Move(s, i, j) ==
    LET rest == SubSeq(s, 1, i - 1) \o SubSeq(s, i + 1, Len(s))
    IN  SubSeq(rest, 1, j - 1) \o <<s[i]>> \o SubSeq(rest, j, Len(rest))

\* The unrounded expected total of a list of steps in a context.
ExpectedOf(steps, ctx) ==
    ApplyMinimum(RunSteps(steps, ctx, Acc(0, <<>>, <<>>, FALSE), 1)).total_expected

\* Step i of audit a is a minimum_charge / minimum_bill step.
IsMinimumStep(a, i) ==
    /\ ChargeType(logic_steps[a][i]).ok
    /\ ChargeType(logic_steps[a][i]).s \in MinimumTypes

\* The loop of audit a passes a minimum step: the total stays as it is.
MinimumStepKeepsTotal(a) ==
    (Processes(a) /\ IsMinimumStep(a, idx[a])) => total_expected'[a] = total_expected[a]

\* The expected total of audit a is the expected total of its tariff with
\* any one minimum step moved to any position.
SameWhereverMinimumSits(a) ==
    \A i \in 1..Len(logic_steps[a]) :
        IsMinimumStep(a, i) =>
            \A j \in 1..Len(logic_steps[a]) :
                ExpectedOf(Move(logic_steps[a], i, j), eval_context[a]) = total_expected[a]

\* C20: passing a minimum_charge / minimum_bill step never changes the
\* running total; the value is applied after all steps, so the expected
\* bill of an audit equals the expected bill of the same tariff with the
\* minimum step moved to any other position (first, middle or last), the
\* other steps keeping their order.
C20_MinimumPositionFree ==
    /\ [](\A a \in Audits : (pc[a] = "return" \/ Succeeded(a)) => SameWhereverMinimumSits(a))
    /\ [][\A a \in Audits : MinimumStepKeepsTotal(a)]_vars

\* C20 witness: a SUCCESS at 22 kV whose tariff has minimum steps first, in
\* the middle and last; the middle one (0.90) set the bill, and it sets the
\* same bill when it is moved to the front or to the end.
C20_Witness ==
    \E a \in Audits :
        /\ Succeeded(a)
        /\ Len(logic_steps[a]) = 9
        /\ IsMinimumStep(a, 1)
        /\ IsMinimumStep(a, 4)
        /\ IsMinimumStep(a, 9)
        /\ SumTo(a, 9) < 900
        /\ total_expected[a] = 900
        /\ result[a].expected_bill = 900
        /\ ExpectedOf(Move(logic_steps[a], 4, 1), eval_context[a]) = 900
        /\ ExpectedOf(Move(logic_steps[a], 4, 9), eval_context[a]) = 900

\* ----------------------------------------------------------------------
\* The range of tier p of step i contains v, both ends included.
Contains(a, i, p, v) ==
    /\ BandOf(a, i, p).low <= v
    /\ BandOf(a, i, p).inf \/ v <= BandOf(a, i, p).high

\* The trace line of step i of audit a (the steps of a tariff of the model
\* have different names).
LineOf(a, i) ==
    LET at == {k \in 1..Len(trace_log[a]) :
                  /\ trace_log[a][k].name = StepName(logic_steps[a][i])
                  /\ trace_log[a][k].kind # "minimum_adjustment"}
    IN  trace_log[a][MinOf(at)]

\* C21: for a processed kWh step with a tiered value and a record with a
\* voltage v, whenever tier p contains v (low <= v <= high) and no tier
\* before p in the mapping does, the step is charged at the rate of tier p,
\* whatever tiers after p contain v as well: the amount of the step and
\* its trace line are rate(p) x billed_kwh.
C21_FirstContainingTierWins ==
    \A a \in Audits : Running(a) =>
        \A i \in 1..Len(logic_steps[a]) : Tiered(a, i) =>
            \A p \in 1..Len(logic_steps[a][i].value.s) :
                LET v == eval_context[a].delivery_voltage.n
                    rate == RateOrZero(logic_steps[a][i].value.s[p].rate)
                IN  (Contains(a, i, p, v) /\ \A j \in 1..(p - 1) : ~Contains(a, i, j, v)) =>
                        /\ RateOf(a, i) = rate
                        /\ AmountOf(a, i) = FMul(rate, eval_context[a].user.billed_kwh)
                        /\ LineOf(a, i).kind = "amount"
                        /\ LineOf(a, i).amt = Fmt2(FMul(rate, eval_context[a].user.billed_kwh))

\* C21 witness: at 15 kV the mapping {"22 kV", "2.2-15 kV", "0-2.2 kV",
\* "Over kV"} has two tiers that contain the voltage, the second and the
\* fourth; 2 kWh are charged at the rate 0.081 of the second.
C21_Witness ==
    \E a \in Audits :
        /\ Succeeded(a)
        /\ Tiered(a, 2)
        /\ Len(logic_steps[a][2].value.s) = 4
        /\ eval_context[a].delivery_voltage = Num(15000)
        /\ eval_context[a].user.billed_kwh = 2000
        /\ ~Contains(a, 2, 1, 15000)
        /\ Contains(a, 2, 2, 15000)
        /\ Contains(a, 2, 4, 15000)
        /\ RateOf(a, 2) = 81
        /\ LineOf(a, 2).amt = Fmt2(162)

\* ----------------------------------------------------------------------
\* The value of the step is tiered and the record has no voltage, or a
\* voltage that no tier contains.
NoTierApplies(step, ctx) ==
    /\ step.value.t = "tiers"
    /\ \/ ctx.delivery_voltage.t = "none"
       \/ \A p \in 1..Len(step.value.s) :
             LET band == _parse_voltage_tier_key(step.value.s[p].key)
                 v == ctx.delivery_voltage.n
             IN  ~(band.low <= v /\ (band.inf \/ v <= band.high))

\* The step is a monetary step that passes its condition.
Charged(step, ctx) ==
    /\ Conditional(step)
    /\ ~Gated(step, ctx)
    /\ ChargeType(step).s \in {"fixed_fee"} \cup KwhTypes \cup KwTypes \cup RkvaTypes

\* The loop of audit a passes a charged step to which no tier applies: the
\* total stays, the trace gets the line "<step>: $0.00", nothing is raised
\* and the loop goes on to the next step.
ZeroRateStep(a) ==
    LET step == Current(a)
        ctx == eval_context[a]
    IN  (pc[a] = "steps" /\ Acts(a) /\ Charged(step, ctx) /\ NoTierApplies(step, ctx)) =>
            /\ pc'[a] = IF idx[a] = Len(logic_steps[a]) THEN "minimum" ELSE "steps"
            /\ idx'[a] = idx[a] + 1
            /\ total_expected'[a] = total_expected[a]
            /\ min_candidates'[a] = min_candidates[a]
            /\ trace_log'[a] =
                  Append(trace_log[a], Line("amount", StepName(step), "", <<>>, 0, 0))

\* C22: a charged step with a tiered value, for a record without voltage or
\* with a voltage that no tier contains, is a processed step of amount 0:
\* it adds "$0.00" to the trace and nothing to the total, no exception
\* leaves it, and the steps after it are processed.
C22_NoTierIsZeroAmount == [][\A a \in Audits : ZeroRateStep(a)]_vars

\* C22 witness: a SUCCESS at 22 kV, in the gap of {"0-2.2 kV", "2.2-15 kV",
\* "Over 60 kV"}: the energy step is in the trace with $0.00 between the
\* customer charge before it and the minimum candidate after it.
C22_Witness ==
    \E a \in Audits :
        /\ Succeeded(a)
        /\ Len(logic_steps[a]) = 3
        /\ eval_context[a].delivery_voltage = Num(22000)
        /\ eval_context[a].user.billed_kwh = 2000
        /\ NoTierApplies(logic_steps[a][2], eval_context[a])
        /\ result[a].trace[1].amt = Fmt2(100)
        /\ result[a].trace[2].kind = "amount"
        /\ result[a].trace[2].amt = 0
        /\ result[a].trace[3].kind = "minimum_candidate"

\* ----------------------------------------------------------------------
\* A step without a charge type that carries a note.
IsInformational(step) ==
    /\ step.charge_type.t \in {"absent", "none"} \/ step.charge_type = Str(<<>>)
    /\ step.note.t # "absent"

\* A step whose charge type is one of the five reference classifications.
IsReferenceOnly(step) ==
    /\ step.charge_type.t = "str"
    /\ \E ct \in {"reference", "energy_rate", "demand_rate", "energy_rate_minimum",
                   "demand_determination"} : step.charge_type.s = <<ct>>

\* The loop of audit a passes an informational or a reference-only step:
\* the total and the minimum candidates stay, the trace grows by one line
\* that names the step and says that no charge was computed.
DescriptiveStep(a) ==
    LET step == Current(a)
        last == trace_log'[a][Len(trace_log'[a])]
    IN  (pc[a] = "steps" /\ Acts(a) /\ (IsInformational(step) \/ IsReferenceOnly(step))) =>
            /\ pc'[a] # "raised"
            /\ idx'[a] = idx[a] + 1
            /\ total_expected'[a] = total_expected[a]
            /\ min_candidates'[a] = min_candidates[a]
            /\ Len(trace_log'[a]) = Len(trace_log[a]) + 1
            /\ SubSeq(trace_log'[a], 1, Len(trace_log[a])) = trace_log[a]
            /\ last.name = StepName(step)
            /\ last.kind = IF IsInformational(step) THEN "informational" ELSE "reference"

\* C23: an informational step (no charge type, a note) and a reference-only
\* step (charge type reference, energy_rate, demand_rate,
\* energy_rate_minimum or demand_determination) leave the running total and
\* the minimum candidates unchanged and add exactly one trace line, whatever
\* their value and condition: the condition is not evaluated.
C23_DescriptiveStepsOnlyTrace == [][\A a \in Audits : DescriptiveStep(a)]_vars

\* C23 witness: an audit that passed a note step and an energy_rate step,
\* both with value 0.50 and a condition that would have skipped them: each
\* left its own line and the total is still 0.
C23_Witness ==
    \E a \in Audits :
        /\ pc[a] = "steps"
        /\ idx[a] = 4
        /\ IsInformational(logic_steps[a][1])
        /\ IsReferenceOnly(logic_steps[a][3])
        /\ logic_steps[a][1].value = Num(500)
        /\ Gated(logic_steps[a][1], eval_context[a])
        /\ Gated(logic_steps[a][3], eval_context[a])
        /\ \E k \in 1..Len(trace_log[a]) : trace_log[a][k].kind = "informational"
        /\ \E k \in 1..Len(trace_log[a]) : trace_log[a][k].kind = "reference"
        /\ \A k \in 1..Len(trace_log[a]) : trace_log[a][k].kind # "condition_false"
        /\ total_expected[a] = 0
        /\ min_candidates[a] = <<>>

\* ----------------------------------------------------------------------
\* The first check that applies to a step, in the order informational,
\* reference-only, condition, minimum, monetary.
FirstCheck(step, ctx) ==
    IF IsInformational(step) THEN "informational"
    ELSE IF IsReferenceOnly(step) THEN "reference"
    ELSE IF Gated(step, ctx) THEN "condition"
    ELSE IF ChargeType(step).s \in {"minimum_charge", "minimum_bill"} THEN "minimum"
    ELSE "monetary"

\* The lines that a step of audit a adds to the trace.
Added(a) == (Len(trace_log[a]) + 1)..Len(trace_log'[a])

\* The loop of audit a handles its current step by the first check that
\* applies, and moves to the next step.
HandledInOrder(a) ==
    LET step == Current(a)
        check == FirstCheck(step, eval_context[a])
        Adds(kinds) == /\ SubSeq(trace_log'[a], 1, Len(trace_log[a])) = trace_log[a]
                       /\ \A k \in Added(a) : trace_log'[a][k].kind \in kinds
    IN  (pc[a] = "steps" /\ Acts(a) /\ pc'[a] # "raised") =>
            /\ idx'[a] = idx[a] + 1
            /\ logic_steps'[a] = logic_steps[a]
            /\ check = "informational" =>
                    Adds({"informational"}) /\ Cardinality(Added(a)) = 1
            /\ check = "reference" =>
                    Adds({"reference"}) /\ Cardinality(Added(a)) = 1
            /\ check = "condition" =>
                    Adds({"condition_false"}) /\ Cardinality(Added(a)) = 1
            /\ check = "minimum" =>
                    /\ Adds({"minimum_candidate"})
                    /\ total_expected'[a] = total_expected[a]
                    /\ step.value.t = "num" =>
                            /\ min_candidates'[a] = Append(min_candidates[a], step.value.n)
                            /\ Cardinality(Added(a)) = 1
            /\ check = "monetary" =>
                    Adds({"amount", "unsupported"}) /\ Cardinality(Added(a)) <= 1
            /\ check # "minimum" => min_candidates'[a] = min_candidates[a]
            /\ check \notin {"monetary"} => total_expected'[a] = total_expected[a]

\* C24: each step is handled once, by the first check that applies in the
\* order informational, reference-only, condition, minimum charge, monetary;
\* so a minimum step whose condition is false or fails to evaluate is
\* skipped by the condition check and records no candidate.
C24_ChecksInFixedOrder == [][\A a \in Audits : HandledInOrder(a)]_vars

\* C24 witness: at 2.2 kV the minimum with condition "delivery_voltage > 15
\* kV" is in the trace as skipped by its condition and is no candidate,
\* while the unconditional minimum of the same tariff is one.
C24_Witness ==
    \E a \in Audits :
        /\ Succeeded(a)
        /\ eval_context[a].delivery_voltage = Num(2200)
        /\ \E i \in 1..Len(logic_steps[a]) :
              /\ ChargeType(logic_steps[a][i]).s \in {"minimum_charge", "minimum_bill"}
              /\ logic_steps[a][i].value = Num(900)
              /\ Gated(logic_steps[a][i], eval_context[a])
              /\ \E k \in 1..Len(result[a].trace) :
                    /\ result[a].trace[k].kind = "condition_false"
                    /\ result[a].trace[k].name = StepName(logic_steps[a][i])
        /\ \E k \in 1..Len(result[a].trace) : result[a].trace[k].kind = "minimum_candidate"
        /\ \A k \in 1..Len(result[a].trace) :
              result[a].trace[k].kind = "minimum_candidate" =>
                  result[a].trace[k].amt # Fmt2(900)

\* ----------------------------------------------------------------------
\* A field that supplies a usable user.* expression.
Usable(v) == v.t = "str" /\ ContainsUser(v.s)

\* The demand expression by preference: the first of demand_kw, formula and
\* unit that is usable, user.billed_demand when none is.
NextUsableDemandExpr(step) ==
    IF Usable(step.demand_kw) THEN step.demand_kw.s
    ELSE IF Usable(step.formula) THEN step.formula.s
    ELSE IF Usable(step.unit) THEN step.unit.s
    ELSE <<"user.billed_demand">>

\* The demand expression by presence: demand_kw when the step has the key,
\* else the first non-empty of formula and unit; user.billed_demand when
\* that field is empty or is not a user.* expression.
PresentDemandExpr(step) ==
    LET chosen == IF step.demand_kw.t # "absent" THEN step.demand_kw
                  ELSE IF Truthy(GetNone(step.formula)) THEN step.formula
                  ELSE GetNone(step.unit)
    IN  IF Usable(chosen) THEN chosen.s ELSE <<"user.billed_demand">>

\* A charged per_kw / demand_charge / demand_fee step.
DemandStep(step, ctx) ==
    /\ Conditional(step)
    /\ ~Gated(step, ctx)
    /\ ChargeType(step).s \in {"per_kw", "demand_charge", "demand_fee"}

\* Audit a adds rate x demand for its current demand step, the demand being
\* the value of expr(step), and traces that amount.
DemandAmount(a, expr(_)) ==
    LET step == Current(a)
        ctx == eval_context[a]
        demand == QuantityOf(expr(step), ctx)
        amount == FMul(RateOf(a, idx[a]), demand.n)
    IN  (pc[a] = "steps" /\ Acts(a) /\ pc'[a] # "raised" /\ DemandStep(step, ctx)
            /\ demand.ok) =>
            /\ total_expected'[a] = total_expected[a] + amount
            /\ trace_log'[a] =
                  Append(trace_log[a], Line("amount", StepName(step), "", <<>>, Fmt2(amount), 0))

\* C25 as stated: the demand of a demand step is the value of the first
\* usable user.* expression among demand_kw, formula and unit, of
\* user.billed_demand when there is none, and the amount is rate x demand.
C25_NextUsableFieldIsUsed == [][\A a \in Audits : DemandAmount(a, NextUsableDemandExpr)]_vars

\* C25 amended: the demand expression is demand_kw when the step has that
\* key, else the first non-empty of formula and unit, else
\* user.billed_demand; when the field so chosen is no user.* expression the
\* expression is user.billed_demand and no further field is consulted. The
\* amount is rate x demand.
C25_PresentFieldOrDefault == [][\A a \in Audits : DemandAmount(a, PresentDemandExpr)]_vars

\* C25 witness: 2 kWh and 1 kW on the tariff whose demand steps carry "kW"
\* or null in the preferred field and user.billed_kwh in the next one: the
\* three of them bill 1 kW, the step with an empty formula bills its unit.
C25_Witness ==
    \E a \in Audits :
        /\ Succeeded(a)
        /\ Len(logic_steps[a]) = 7
        /\ eval_context[a].user.billed_kwh = 2000
        /\ eval_context[a].user.billed_demand = 1000
        /\ logic_steps[a][1].demand_kw = Str(<<"kW">>)
        /\ Usable(logic_steps[a][1].formula)
        /\ result[a].trace[1].amt = Fmt2(50)
        /\ result[a].trace[2].amt = Fmt2(30)
        /\ result[a].trace[3].amt = Fmt2(20)
        /\ result[a].trace[4].amt = Fmt2(20)
        /\ result[a].trace[5].amt = Fmt2(40)

\* ----------------------------------------------------------------------
\* The first non-empty of the fields when it names a user.* expression, the
\* default otherwise.
NamedOr(fields, default) ==
    LET set == {i \in 1..Len(fields) : Truthy(GetNone(fields[i]))}
    IN  IF set # {} /\ Usable(fields[MinOf(set)]) THEN fields[MinOf(set)].s ELSE default

\* The amount a step is to add to the running total.
StepAmount(a, i) ==
    LET step == logic_steps[a][i]
        ctx == eval_context[a]
        ct == ChargeType(step).s
        Times(expr) == IF QuantityOf(expr, ctx).ok
                       THEN FMul(RateOf(a, i), QuantityOf(expr, ctx).n)
                       ELSE 0
    IN  IF ~Conditional(step) \/ Gated(step, ctx) THEN 0
        ELSE IF ct = "fixed_fee" THEN RateOf(a, i)
        ELSE IF ct \in {"per_kwh", "energy_charge"}
        THEN Times(NamedOr(<<step.unit, step.applies_to>>, <<"user.billed_kwh">>))
        ELSE IF ct \in {"per_kw", "demand_charge", "demand_fee"}
        THEN Times(PresentDemandExpr(step))
        ELSE IF ct \in {"per_rkva", "reactive_demand_fee"}
        THEN Times(NamedOr(<<step.demand_rkva, step.formula, step.unit>>,
                           <<"user.billed_rkva">>))
        ELSE 0

RECURSIVE StepAmountsTo(_, _)
\* The sum of the amounts of the first n steps of audit a, in list order.
StepAmountsTo(a, n) == IF n = 0 THEN 0 ELSE StepAmountsTo(a, n - 1) + StepAmount(a, n)

\* The running total of every audit is the sum of the amounts of the steps
\* it has passed; before the minimum is applied it is the sum of all.
TotalIsSum ==
    \A a \in Audits :
        /\ pc[a] = "steps" => total_expected[a] = StepAmountsTo(a, idx[a] - 1)
        /\ pc[a] = "minimum" => total_expected[a] = StepAmountsTo(a, Len(logic_steps[a]))

\* A step of audit a that changes the total adds one trace line "<step>:
\* $<amount>" with the amount it added.
AmountTraced(a) ==
    (pc[a] = "steps" /\ Acts(a) /\ total_expected'[a] # total_expected[a]) =>
        trace_log'[a] =
            Append(trace_log[a],
                   Line("amount", StepName(Current(a)), "", <<>>,
                        Fmt2(total_expected'[a] - total_expected[a]), 0))

C27_SkippedHasZeroVariance ==
    \A a \in Audits :
        WasSkipped(a) =>
            /\ {"expected_bill", "variance"} \subseteq DOMAIN result[a]
            /\ result[a].expected_bill = 0
            /\ result[a].variance = 0

\* C27 witness: a record billed 1.00 whose tariff has an empty step list:
\* the result is SKIPPED with variance 0, not -1.00.
C27_Witness ==
    \E a \in Audits :
        /\ WasSkipped(a)
        /\ row[a].bill_amount = Num(1000)
        /\ _normalize_sc_code(RawSc(row[a])) \in DOMAIN tariff_map
        /\ result[a].expected_bill = 0
        /\ result[a].variance = 0

\* ----------------------------------------------------------------------
\* The pipeline has put the row of audit a into its report.
Reported(a) == pc[a] = "reported"

\* C28 as stated: a row of the report is labelled Match only if its audit
\* returned SUCCESS with |variance| < 0.10; the row of a SKIPPED audit is
\* never labelled Match.
C28_MatchOnlyForSuccess ==
    \A a \in Audits :
        (Reported(a) /\ audit_row[a].Match_Status = "Match") =>
            /\ result[a].status = "SUCCESS"
            /\ Abs(result[a].variance) < 100

\* ----------------------------------------------------------------------
\* The normalized code of entry i of the document.
CodeOf(i) == _normalize_sc_code(document.items[i].sc_code)

\* Entry i is the last entry of the document with its normalized code.
LastOfCode(i) == \A j \in (i + 1)..Len(document.items) : CodeOf(j) # CodeOf(i)

\* C29: a loaded store has one tariff per normalized sc_code of the
\* document, the entry that comes last among those with that code; an
\* audit that looks the code up works on the steps of that last entry.
C29_LaterEntryReplacesEarlier ==
    DOMAIN tariff_map # {} =>
        /\ DOMAIN tariff_map = {CodeOf(i) : i \in 1..Len(document.items)}
        /\ \A i \in 1..Len(document.items) :
              LastOfCode(i) => tariff_map[CodeOf(i)] = document.items[i]
        /\ \A a \in Audits : \A i \in 1..Len(document.items) :
              (Running(a) /\ LastOfCode(i) /\ CodeOf(i) = sc_code[a]) =>
                  logic_steps[a] = document.items[i].logic_steps.s

\* C29 witness: the document lists "SC-1" with three steps first and "SC1"
\* with four steps last; the audit of a record of "sc1" runs the four.
C29_Witness ==
    \E a \in Audits :
        /\ Succeeded(a)
        /\ Len(document.items) = 4
        /\ CodeOf(1) = CodeOf(4)
        /\ document.items[1] # document.items[4]
        /\ sc_code[a] = CodeOf(1)
        /\ Len(document.items[1].logic_steps.s) = 3
        /\ Len(logic_steps[a]) = 4
        /\ Len(result[a].trace) >= 4

\* ----------------------------------------------------------------------
\* Entry i of the document can be indexed: it has an sc_code.
Indexable(i) == document.items[i].sc_code.t # "absent"

\* C30: loading is all or nothing: the store is empty when an entry of the
\* document cannot be indexed, also when entries before it could; a store
\* that is not empty holds every code of the document.
C30_LoadAllOrNothing ==
    /\ (\E i \in 1..Len(document.items) : ~Indexable(i)) => DOMAIN tariff_map = {}
    /\ \/ DOMAIN tariff_map = {}
       \/ /\ document.kind \in {"list", "wrapped"}
          /\ \A i \in 1..Len(document.items) :
                Indexable(i) /\ CodeOf(i) \in DOMAIN tariff_map

\* C30 witness: the document lists SC-1, an entry without sc_code and SC 3;
\* the store is empty and a plain record of SC-1, which the first entry
\* would have priced, is SKIPPED.
C30_Witness ==
    \E a \in Audits :
        /\ Len(document.items) = 3
        /\ Indexable(1)
        /\ ~Indexable(2)
        /\ Indexable(3)
        /\ DOMAIN tariff_map = {}
        /\ WasSkipped(a)
        /\ row[a].service_class = document.items[1].sc_code
        /\ row[a].billed_kwh = Num(2000)

====
